---- MODULE Spec2Model ----
(***************************************************************************)
(* A model of scytale's chunk buffer (src/buffer.rs, src/block.rs) and of  *)
(* the SHA-2 variant wrapper built on it (src/hash/sha2/mod.rs).           *)
(*                                                                         *)
(* Spec      the fixed capacity Buffer<u8, N> of src/buffer.rs with its    *)
(*           public operations and the Blocks iterator it hands out.       *)
(* SpecHash  a Sha2Variant instance: update, pad/finalize, reset, over the *)
(*           Blocks iterator of src/block.rs (ArrayVec backed).            *)
(* SpecAes   an AES cipher of src/cipher/aes/x86.rs: new, rekey,           *)
(*           encrypt_blocks, decrypt_blocks, with AES computed in full.    *)
(* SpecDetect  threads calling is_aes_detected of x86.rs concurrently.     *)
(***************************************************************************)
EXTENDS Integers, Sequences, FiniteSets, TLC

(***************************************************************************)
(* Bounds                                                                  *)
(***************************************************************************)
\* capacity of the modelled Buffer<u8, N>
N == 4
\* longest slice passed to blocks()
MaxInput == 9
\* longest slice passed to extend_from_slice()
MaxSlice == 2
\* largest argument passed to truncate()
MaxTruncate == 5
\* BLOCK_SIZE of the modelled Sha2Variant, in bytes
BLOCK_SIZE == 4
\* size_of::<Length>() of the modelled Sha2Variant, in bytes
LengthSize == 2
\* longest message hashed, longest slice and most slices passed to update
MaxMessage == 8
MaxPiece == 5
MaxPieces == 3
\* most bytes passed to update between a finalize and the next reset
MaxReuse == 1
\* longest long slice passed to update, how many lengths a long slice takes,
\* most long slices passed and most bytes passed in them
RunLength == 32768
RunChoices == 8
MaxRuns == 2
MaxTotal == 65544
\* most blocks in a slice passed to encrypt_blocks or decrypt_blocks, and
\* longest key passed to new or rekey
MaxBlocks == 17
MaxKeyLength == 33
\* threads that call is_aes_detected, and most calls of one thread
MaxThreads == 3
MaxCalls == 2

\* the blocks a Core compresses between new or reset
MaxCompress == 2

\* DIGEST_SIZE of the modelled Sha2Variant, in bytes, and the most bytes passed
\* to an Hmac between resets
DIGEST_SIZE == 2
MaxMacMessage == 2

\* the values a byte of caller data takes
Byte == 0 .. 1

\* usize arithmetic, scaled down to 16 bits
USIZE == 2 ^ 16

Min(a, b) == IF a < b THEN a ELSE b

\* all sequences over S of length at most n
SeqUpTo(S, n) == UNION {[1 .. k -> S] : k \in 0 .. n}

VARIABLES
    buf,        \* the Buffer: [buffer, length, panic]
    iter,       \* lifetime of the Blocks iterator: "none", "live", "exhausted", "dropped"
    first,      \* Blocks.blocks, the option half of the chain
    following,  \* Blocks.blocks, the slice half of the chain
    remainder,  \* Blocks.remainder
    yielded,    \* the blocks next() has returned for the current call
    call,       \* the buffer contents and the input at the blocks() call
    copied,     \* values copied into the buffer by the call: at creation, at drop
    ret,        \* the value returned by the last pop()
    hash,       \* the Sha2Variant: [core, length, buffer, panic]
    message,    \* the bytes passed to update since new/reset
    pieces,     \* the lengths of the slices passed to update since new/reset
    digest,     \* what the last finalize returned
    hphase,     \* "ready": no finalize since new/reset; "finalized"; "reused":
                \* updated after a finalize; "refinalized": finalized again
    mark,       \* how many bytes had been passed to update at the first finalize
    recycled,   \* whether the last call was a reset of a finalized instance
    asked,      \* the last call to a name table: [fn, name, key]
    answer,     \* what that call returned
    DETECTED,   \* the OnceBool of is_aes_detected: <<>> until set, then <<value>>
    cipher,     \* the cipher instance: [type, variant, inner], inner = [w, dw]
    keyed,      \* the key of the latest new or rekey that succeeded
    aescall,    \* the latest call on the cipher and its outcome
    thread,     \* per thread, where its call of is_aes_detected stands
    returned,   \* the values calls of is_aes_detected have returned
    sha,        \* the Core: [variant, h], h its 8 state words
    shacall,    \* the latest call on the Core: new, reset, or update with its
                \* block, the state before, the schedule and the working variables
    mac,        \* the Hmac: [initial_state, inner_hash, outer_hash]
    macs        \* the calls on the Hmac since its key was set: [key, message,
                \* phase, by, used, tag, panic]

bufvars == <<buf, iter, first, following, remainder, yielded, call, copied, ret>>
hashvars == <<hash, message, pieces, digest, hphase, mark, recycled>>
lookupvars == <<asked, answer>>
aesvars == <<DETECTED, cipher, keyed, aescall>>
detectvars == <<thread, returned>>
corevars == <<sha, shacall>>
macvars == <<mac, macs>>
vars == <<buf, iter, first, following, remainder, yielded, call, copied, ret,
          hash, message, pieces, digest, hphase, mark, recycled,
          asked, answer, DETECTED, cipher, keyed, aescall, thread, returned,
          sha, shacall, mac, macs>>

(***************************************************************************)
(* Buffer<T, N> (src/buffer.rs).  The record holds the initialised cells   *)
(* of the storage (at most N of them), the length field, and whether an    *)
(* operation on it has panicked.                                           *)
(***************************************************************************)
Buffer_new == [buffer |-> <<>>, length |-> 0, panic |-> FALSE]

is_full(self) == self.length = N

\* N - self.length on usize: an overflow check panics (debug builds) or the
\* subtraction wraps (release builds)
remaining_capacity(self, checked) ==
    IF self.length > N /\ checked
    THEN [value |-> 0, panic |-> TRUE]
    ELSE [value |-> (N - self.length) % USIZE, panic |-> FALSE]

\* self.buffer[self.length] is a bounds checked index into [_; N]
push(self, value) ==
    IF self.length >= N
    THEN [self EXCEPT !.panic = TRUE]
    ELSE [self EXCEPT !.buffer = Append(@, value), !.length = @ + 1]

\* the length is decremented before the cell is indexed
pop(self) ==
    IF self.length = 0
    THEN [self |-> self, value |-> <<>>]
    ELSE IF self.length - 1 >= N
         THEN [self |-> [self EXCEPT !.length = @ - 1, !.panic = TRUE],
               value |-> <<>>]
         ELSE [self |-> [self EXCEPT !.length = @ - 1,
                                     !.buffer = SubSeq(@, 1, self.length - 1)],
               value |-> <<self.buffer[self.length]>>]

RECURSIVE fill(_, _)
fill(self, value) ==
    IF is_full(self) \/ self.panic
    THEN self
    ELSE fill(push(self, value), value)

\* extend_from_slice that stops at a full buffer instead of pushing into it
RECURSIVE extend_from_slice_to_capacity(_, _)
extend_from_slice_to_capacity(self, other) ==
    IF other = <<>> \/ self.length >= N
    THEN self
    ELSE extend_from_slice_to_capacity(push(self, Head(other)), Tail(other))

RECURSIVE extend_from_slice(_, _)
extend_from_slice(self, other) ==
    IF other = <<>> \/ self.panic
    THEN self
    ELSE extend_from_slice(push(self, Head(other)), Tail(other))

\* for i in len..self.length { self.buffer[i] ... } indexes a cell past the
\* storage when the length is past N; then self.length = len.  Cells that a
\* longer length uncovers hold whatever the storage held: exposed.
truncate(self, len, exposed) ==
    IF len < self.length /\ self.length > N
    THEN [self EXCEPT !.panic = TRUE]
    ELSE [self EXCEPT !.length = len,
                      !.buffer = IF len <= Len(@)
                                 THEN SubSeq(@, 1, len)
                                 ELSE @ \o exposed]

clear(self) == truncate(self, 0, <<>>)

(***************************************************************************)
(* Blocks<'a, 'b, T, N> of src/buffer.rs.  A block is a view: where it     *)
(* points (the buffer's storage or the caller's slice, and the offset      *)
(* there) and the N values it shows.                                       *)
(***************************************************************************)
\* Blocks_new that passes the first block through the buffer even when the
\* buffer is empty
Blocks_new_copying(self, values, checked) ==
    LET rc == remaining_capacity(self, checked)
        n == IF ~rc.panic THEN Min(Len(values), rc.value) ELSE 0
        filled == IF rc.panic
                  THEN [self EXCEPT !.panic = TRUE]
                  ELSE extend_from_slice(self, SubSeq(values, 1, n))
        rest == SubSeq(values, n + 1, Len(values))
        fst == IF is_full(filled)
               THEN <<[src |-> "buffer", off |-> 0, data |-> filled.buffer]>>
               ELSE <<>>
        m == Len(rest) \div N
        fol == [i \in 1 .. m |->
                   [src |-> "values", off |-> n + (i - 1) * N,
                    data |-> SubSeq(rest, (i - 1) * N + 1, i * N)]]
    IN  [buffer |-> filled,
         first |-> fst,
         following |-> fol,
         remainder |-> SubSeq(rest, m * N + 1, Len(rest))]

Blocks_new(self, values, checked) ==
    LET rc == remaining_capacity(self, checked)
        n == IF self.length > 0 /\ ~rc.panic
             THEN Min(Len(values), rc.value)
             ELSE 0
        filled == IF self.length > 0
                  THEN IF rc.panic
                       THEN [self EXCEPT !.panic = TRUE]
                       ELSE extend_from_slice(self, SubSeq(values, 1, n))
                  ELSE self
        rest == SubSeq(values, n + 1, Len(values))
        fst == IF self.length > 0 /\ is_full(filled)
               THEN <<[src |-> "buffer", off |-> 0, data |-> filled.buffer]>>
               ELSE <<>>
        m == Len(rest) \div N
        fol == [i \in 1 .. m |->
                   [src |-> "values", off |-> n + (i - 1) * N,
                    data |-> SubSeq(rest, (i - 1) * N + 1, i * N)]]
    IN  [buffer |-> filled,
         first |-> fst,
         following |-> fol,
         remainder |-> SubSeq(rest, m * N + 1, Len(rest))]

\* Blocks_next that takes the slice before the option
Blocks_next_swapped(fst, fol) ==
    IF fol # <<>>
    THEN [item |-> <<Head(fol)>>, first |-> fst, following |-> Tail(fol)]
    ELSE IF fst # <<>>
         THEN [item |-> fst, first |-> <<>>, following |-> fol]
         ELSE [item |-> <<>>, first |-> fst, following |-> fol]

\* Chain::next: the option first, then the slice
Blocks_next(fst, fol) ==
    IF fst # <<>>
    THEN [item |-> fst, first |-> <<>>, following |-> fol]
    ELSE IF fol # <<>>
         THEN [item |-> <<Head(fol)>>, first |-> fst, following |-> Tail(fol)]
         ELSE [item |-> <<>>, first |-> fst, following |-> fol]

\* Blocks_drop that does not clear the emitted buffer
Blocks_drop_keep(self, rem) == extend_from_slice(self, rem)

\* Blocks_drop that does not buffer the remainder
Blocks_drop_lossy(self, rem) == IF is_full(self) THEN clear(self) ELSE self

\* Blocks_drop that clears the buffer whether or not it is full
Blocks_drop_always_clear(self, rem) == extend_from_slice(clear(self), rem)

Blocks_drop(self, rem) ==
    extend_from_slice(IF is_full(self) THEN clear(self) ELSE self, rem)

(***************************************************************************)
(* The buffer machine: a caller applying the public operations of one      *)
(* Buffer<u8, N>.  While a Blocks iterator lives it holds the &mut borrow  *)
(* of the buffer, so no other operation can be called.  A panic ends the   *)
(* run.                                                                    *)
(***************************************************************************)
NoCall == [buffer |-> <<>>, length |-> 0, values |-> <<>>]
NoCopy == [new |-> 0, drop |-> 0]

Borrowed == iter \in {"live", "exhausted"}
Callable == ~buf.panic /\ iter = "none"

\* the Blocks fields and the record of the last call, once the call is over
Forget ==
    /\ iter' = "none"
    /\ first' = <<>>
    /\ following' = <<>>
    /\ remainder' = <<>>
    /\ yielded' = <<>>
    /\ call' = NoCall
    /\ copied' = NoCopy

BufInit ==
    /\ buf = Buffer_new
    /\ iter = "none"
    /\ first = <<>>
    /\ following = <<>>
    /\ remainder = <<>>
    /\ yielded = <<>>
    /\ call = NoCall
    /\ copied = NoCopy
    /\ ret = <<>>

New ==
    /\ Callable
    /\ buf' = Buffer_new
    /\ ret' = <<>>
    /\ Forget
    /\ UNCHANGED <<hashvars, lookupvars, aesvars, detectvars, corevars, macvars>>

Push ==
    /\ Callable
    /\ \E value \in Byte : buf' = push(buf, value)
    /\ ret' = <<>>
    /\ Forget
    /\ UNCHANGED <<hashvars, lookupvars, aesvars, detectvars, corevars, macvars>>

Pop ==
    /\ Callable
    /\ buf' = pop(buf).self
    /\ ret' = pop(buf).value
    /\ Forget
    /\ UNCHANGED <<hashvars, lookupvars, aesvars, detectvars, corevars, macvars>>

Fill ==
    /\ Callable
    /\ \E value \in Byte : buf' = fill(buf, value)
    /\ ret' = <<>>
    /\ Forget
    /\ UNCHANGED <<hashvars, lookupvars, aesvars, detectvars, corevars, macvars>>

\* the call is recorded: the buffer at the call and the slice it was given
ExtendFromSlice ==
    /\ Callable
    /\ \E other \in SeqUpTo(Byte, MaxSlice) :
           /\ buf' = extend_from_slice(buf, other)
           /\ call' = [buffer |-> buf.buffer, length |-> buf.length,
                       values |-> other]
    /\ ret' = <<>>
    /\ iter' = "none"
    /\ first' = <<>>
    /\ following' = <<>>
    /\ remainder' = <<>>
    /\ yielded' = <<>>
    /\ copied' = NoCopy
    /\ UNCHANGED <<hashvars, lookupvars, aesvars, detectvars, corevars, macvars>>

\* the call is recorded: the buffer at the call and the len it was given
Truncate ==
    /\ Callable
    /\ \E len \in 0 .. MaxTruncate :
         \E exposed \in [1 .. (IF Min(len, N) > Len(buf.buffer)
                              THEN Min(len, N) - Len(buf.buffer)
                              ELSE 0) -> Byte] :
            /\ buf' = truncate(buf, len, exposed)
            /\ call' = [buffer |-> buf.buffer, length |-> buf.length,
                        values |-> <<>>, len |-> len]
    /\ ret' = <<>>
    /\ iter' = "none"
    /\ first' = <<>>
    /\ following' = <<>>
    /\ remainder' = <<>>
    /\ yielded' = <<>>
    /\ copied' = NoCopy
    /\ UNCHANGED <<hashvars, lookupvars, aesvars, detectvars, corevars, macvars>>

Clear ==
    /\ Callable
    /\ buf' = clear(buf)
    /\ ret' = <<>>
    /\ Forget
    /\ UNCHANGED <<hashvars, lookupvars, aesvars, detectvars, corevars, macvars>>

\* Buffer::blocks: Blocks::new(self, values)
Blocks ==
    /\ Callable
    /\ \E values \in SeqUpTo(Byte, MaxInput),
          checked \in IF buf.length > N THEN BOOLEAN ELSE {TRUE} :
         LET b == Blocks_new(buf, values, checked)
         IN  /\ buf' = b.buffer
             /\ iter' = IF b.buffer.panic THEN "none" ELSE "live"
             /\ first' = b.first
             /\ following' = b.following
             /\ remainder' = b.remainder
             /\ call' = [buffer |-> buf.buffer, length |-> buf.length,
                         values |-> values]
             /\ copied' = [new |-> b.buffer.length - buf.length, drop |-> 0]
    /\ yielded' = <<>>
    /\ ret' = <<>>
    /\ UNCHANGED <<hashvars, lookupvars, aesvars, detectvars, corevars, macvars>>

\* Iterator::next on the live iterator; None ends a for loop
BlocksNext ==
    /\ iter = "live"
    /\ LET r == Blocks_next(first, following)
       IN  /\ first' = r.first
           /\ following' = r.following
           /\ yielded' = yielded \o r.item
           /\ iter' = IF r.item = <<>> THEN "exhausted" ELSE "live"
    /\ UNCHANGED <<buf, remainder, call, copied, ret>>
    /\ UNCHANGED <<hashvars, lookupvars, aesvars, detectvars, corevars, macvars>>

\* Drop that flushes only after the iterator returned None
Drop_when_exhausted ==
    /\ Borrowed
    /\ buf' = IF iter = "exhausted" THEN Blocks_drop(buf, remainder) ELSE buf
    /\ copied' = [copied EXCEPT
                    !.drop = buf'.length - (IF is_full(buf) THEN 0 ELSE buf.length)]
    /\ iter' = "dropped"
    /\ UNCHANGED <<first, following, remainder, yielded, call, ret>>
    /\ UNCHANGED <<hashvars, lookupvars, aesvars, detectvars, corevars, macvars>>

\* the iterator goes out of scope, wherever the consumer stopped
Drop ==
    /\ Borrowed
    /\ buf' = Blocks_drop(buf, remainder)
    /\ copied' = [copied EXCEPT
                    !.drop = buf'.length - (IF is_full(buf) THEN 0 ELSE buf.length)]
    /\ iter' = "dropped"
    /\ UNCHANGED <<first, following, remainder, yielded, call, ret>>
    /\ UNCHANGED <<hashvars, lookupvars, aesvars, detectvars, corevars, macvars>>

\* the statement holding the iterator is over: the caller has the buffer back
Release ==
    /\ iter = "dropped"
    /\ Forget
    /\ UNCHANGED <<buf, ret>>
    /\ UNCHANGED <<hashvars, lookupvars, aesvars, detectvars, corevars, macvars>>

(***************************************************************************)
(* Blocks<'a, 'b, T, N> of src/block.rs, over Buffer = ArrayVec<T, N>, at  *)
(* N = BLOCK_SIZE.  The buffer is the sequence of values the ArrayVec      *)
(* holds; try_extend_from_slice(..).unwrap() panics when the slice does    *)
(* not fit and extends nothing.                                            *)
(***************************************************************************)
try_extend_from_slice(buffer, other) ==
    IF Len(other) > BLOCK_SIZE - Len(buffer)
    THEN [buffer |-> buffer, panic |-> TRUE]
    ELSE [buffer |-> buffer \o other, panic |-> FALSE]

\* block_Blocks_new that takes the buffer for the first block whether or not
\* the values filled it
block_Blocks_new_unfilled(buffer, values) ==
    LET n == IF Len(buffer) > 0
             THEN Min(Len(values), BLOCK_SIZE - Len(buffer))
             ELSE 0
        filled == IF Len(buffer) > 0
                  THEN try_extend_from_slice(buffer, SubSeq(values, 1, n))
                  ELSE [buffer |-> buffer, panic |-> FALSE]
        rest == SubSeq(values, n + 1, Len(values))
        fst == IF Len(buffer) > 0
               THEN <<filled.buffer>>
               ELSE <<>>
        m == Len(rest) \div BLOCK_SIZE
        fol == [i \in 1 .. m |->
                   SubSeq(rest, (i - 1) * BLOCK_SIZE + 1, i * BLOCK_SIZE)]
    IN  [buffer |-> filled.buffer,
         panic |-> filled.panic,
         first |-> fst,
         following |-> fol,
         remainder |-> SubSeq(rest, m * BLOCK_SIZE + 1, Len(rest))]

block_Blocks_new(buffer, values) ==
    LET n == IF Len(buffer) > 0
             THEN Min(Len(values), BLOCK_SIZE - Len(buffer))
             ELSE 0
        filled == IF Len(buffer) > 0
                  THEN try_extend_from_slice(buffer, SubSeq(values, 1, n))
                  ELSE [buffer |-> buffer, panic |-> FALSE]
        rest == SubSeq(values, n + 1, Len(values))
        fst == IF Len(buffer) > 0 /\ Len(filled.buffer) = BLOCK_SIZE
               THEN <<filled.buffer>>
               ELSE <<>>
        m == Len(rest) \div BLOCK_SIZE
        fol == [i \in 1 .. m |->
                   SubSeq(rest, (i - 1) * BLOCK_SIZE + 1, i * BLOCK_SIZE)]
    IN  [buffer |-> filled.buffer,
         panic |-> filled.panic,
         first |-> fst,
         following |-> fol,
         remainder |-> SubSeq(rest, m * BLOCK_SIZE + 1, Len(rest))]

\* block_Blocks_drop that does not clear the emitted buffer
block_Blocks_drop_keep(buffer, rem) == try_extend_from_slice(buffer, rem)

block_Blocks_drop(buffer, rem) ==
    try_extend_from_slice(IF Len(buffer) = BLOCK_SIZE THEN <<>> ELSE buffer, rem)

(***************************************************************************)
(* Sha2Variant (src/hash/sha2/mod.rs).  The compression core is not        *)
(* interpreted: its state h is a function of the initialization vector and *)
(* of the blocks compressed since, so the model keeps that sequence of     *)
(* blocks in its place.                                                    *)
(***************************************************************************)
LengthModulus == 2 ^ (8 * LengthSize)

Core_new == <<>>

Core_update(core, block) == Append(core, block)

\* core.update(block) for every block, in order: each update appends its
\* block, so the loop leaves the blocks appended in the order it took them
Core_update_all(core, blocks) == core \o blocks

\* Core::finalize converts the state words to big endian in place and returns
\* their bytes: the digest is a function of the blocks compressed so far, and
\* the state left behind is that state converted
to_be == <<"to_be">>

Core_finalize(core) == [core |-> Append(core, to_be), digest |-> core]

Sha2Variant_new ==
    [core |-> Core_new, length |-> 0, buffer |-> <<>>, panic |-> FALSE]

\* Sha2Variant_reset that leaves the length as it is
Sha2Variant_reset_keep_length(self) ==
    [self EXCEPT !.core = Core_new, !.buffer = <<>>]

Sha2Variant_reset(self) ==
    [self EXCEPT !.core = Core_new, !.length = 0, !.buffer = <<>>]

\* the build outcomes of an addition on Length that reaches sum: with overflow
\* checks (debug builds) it panics at the modulus, without them it wraps
overflow_checks(sum) == IF sum >= LengthModulus THEN BOOLEAN ELSE {FALSE}

\* Sha2Variant_update that counts bits where the source counts bytes
Sha2Variant_update_bits(self, data, checked) ==
    IF self.panic
    THEN self
    ELSE LET it == block_Blocks_new(self.buffer, data)
             dropped == block_Blocks_drop(it.buffer, it.remainder)
         IN  [core |-> Core_update_all(self.core, it.first \o it.following),
              length |-> (self.length + 8 * Len(data)) % LengthModulus,
              buffer |-> dropped.buffer,
              panic |-> it.panic \/ dropped.panic]

\* self.length + data.len().as_(), then the for loop takes every block of the
\* iterator and drops it
Sha2Variant_update(self, data, checked) ==
    IF self.panic
    THEN self
    ELSE IF checked /\ self.length + (Len(data) % LengthModulus) >= LengthModulus
    THEN [self EXCEPT !.panic = TRUE]
    ELSE LET it == block_Blocks_new(self.buffer, data)
             dropped == block_Blocks_drop(it.buffer, it.remainder)
         IN  IF it.panic
             THEN [self EXCEPT !.panic = TRUE]
             ELSE [core |-> Core_update_all(self.core, it.first \o it.following),
                   length |-> (self.length + (Len(data) % LengthModulus))
                                  % LengthModulus,
                   buffer |-> dropped.buffer,
                   panic |-> dropped.panic]

\* the field written least significant byte first
to_le_bytes(length) ==
    [i \in 1 .. LengthSize |-> (length \div (256 ^ (i - 1))) % 256]

\* length.to_be() written at the field: the most significant byte first
to_be_bytes(length) ==
    [i \in 1 .. LengthSize |-> (length \div (256 ^ (LengthSize - i))) % 256]

PadByte == 128

\* Sha2Variant_pad that spills only when less than size_of::<Length>() is free
Sha2Variant_pad_short(self, checked) ==
    LET length == (self.length * 8) % LengthModulus
        offset == Len(self.buffer)
        zeros == [i \in 1 .. BLOCK_SIZE |-> 0]
        marked == [zeros EXCEPT ![offset + 1] = PadByte]
        spill == BLOCK_SIZE - offset < LengthSize
        flushed == IF spill
                   THEN Sha2Variant_update(self, SubSeq(marked, offset + 1, BLOCK_SIZE),
                                           checked)
                   ELSE self
        block == IF spill THEN zeros ELSE marked
        from == IF spill THEN 0 ELSE offset
        field == [i \in 1 .. BLOCK_SIZE |->
                     IF i > BLOCK_SIZE - LengthSize
                     THEN to_be_bytes(length)[i - (BLOCK_SIZE - LengthSize)]
                     ELSE block[i]]
    IN  IF offset >= BLOCK_SIZE
        THEN [self EXCEPT !.panic = TRUE]
        ELSE Sha2Variant_update(flushed, SubSeq(field, from + 1, BLOCK_SIZE), checked)

Sha2Variant_pad(self, checked) ==
    LET length == (self.length * 8) % LengthModulus
        offset == Len(self.buffer)
        zeros == [i \in 1 .. BLOCK_SIZE |-> 0]
        marked == [zeros EXCEPT ![offset + 1] = PadByte]
        spill == BLOCK_SIZE - offset < LengthSize + 1
        flushed == IF spill
                   THEN Sha2Variant_update(self, SubSeq(marked, offset + 1, BLOCK_SIZE),
                                           checked)
                   ELSE self
        block == IF spill THEN zeros ELSE marked
        from == IF spill THEN 0 ELSE offset
        field == [i \in 1 .. BLOCK_SIZE |->
                     IF i > BLOCK_SIZE - LengthSize
                     THEN to_be_bytes(length)[i - (BLOCK_SIZE - LengthSize)]
                     ELSE block[i]]
    IN  IF offset >= BLOCK_SIZE
        THEN [self EXCEPT !.panic = TRUE]
        ELSE Sha2Variant_update(flushed, SubSeq(field, from + 1, BLOCK_SIZE), checked)

\* the digest is a prefix of the core's serialized state
Sha2Variant_finalize(self, checked) ==
    LET padded == Sha2Variant_pad(self, checked)
        done == Core_finalize(padded.core)
    IN  IF padded.panic
        THEN [self |-> padded, digest |-> <<>>]
        ELSE [self |-> [padded EXCEPT !.core = done.core], digest |-> done.digest]

(***************************************************************************)
(* The hash machine: a caller of one Sha2Variant instance.                 *)
(***************************************************************************)
\* the slices UpdateRun passes
RunLengths == (RunLength - RunChoices + 1) .. RunLength

Run(n) == [i \in 1 .. n |-> 0]

HashInit ==
    /\ hash = Sha2Variant_new
    /\ message = <<>>
    /\ pieces = <<>>
    /\ digest = <<>>
    /\ hphase = "ready"
    /\ mark = 0
    /\ recycled = FALSE

Update ==
    /\ hphase \in {"ready", "finalized", "reused"}
    /\ ~hash.panic
    /\ Len(pieces) < MaxPieces
    /\ \E data \in SeqUpTo(Byte, MaxPiece) :
         /\ Len(message) + Len(data) <= MaxMessage
         /\ hphase # "ready" => Len(message) + Len(data) <= mark + MaxReuse
         /\ \E checked \in overflow_checks(hash.length + Len(data)) :
              hash' = Sha2Variant_update(hash, data, checked)
         /\ message' = message \o data
         /\ pieces' = Append(pieces, Len(data))
    /\ hphase' = IF hphase = "ready" THEN "ready" ELSE "reused"
    /\ recycled' = FALSE
    /\ UNCHANGED <<digest, mark>>
    /\ UNCHANGED <<bufvars, lookupvars, aesvars, detectvars, corevars, macvars>>

\* update with one long slice of zero bytes
UpdateRun ==
    /\ hphase = "ready"
    /\ ~hash.panic
    /\ Len(pieces) < MaxRuns
    /\ \E n \in RunLengths :
         /\ Len(message) + n <= MaxTotal
         /\ \E checked \in overflow_checks(hash.length + n) :
              hash' = Sha2Variant_update(hash, Run(n), checked)
         /\ message' = message \o Run(n)
         /\ pieces' = Append(pieces, n)
    /\ recycled' = FALSE
    /\ UNCHANGED <<digest, hphase, mark>>
    /\ UNCHANGED <<bufvars, lookupvars, aesvars, detectvars, corevars, macvars>>

\* pad passes at most two blocks to update
Finalize ==
    /\ hphase \in {"ready", "finalized", "reused"}
    /\ ~hash.panic
    /\ \E checked \in overflow_checks(hash.length + 2 * BLOCK_SIZE) :
         LET done == Sha2Variant_finalize(hash, checked)
         IN  /\ hash' = done.self
             /\ digest' = IF done.self.panic THEN digest ELSE done.digest
    /\ hphase' = IF hphase = "ready" THEN "finalized" ELSE "refinalized"
    /\ mark' = IF hphase = "ready" THEN Len(message) ELSE mark
    /\ recycled' = FALSE
    /\ UNCHANGED <<message, pieces>>
    /\ UNCHANGED <<bufvars, lookupvars, aesvars, detectvars, corevars, macvars>>

Reset ==
    /\ ~hash.panic
    /\ hash' = Sha2Variant_reset(hash)
    /\ message' = <<>>
    /\ pieces' = <<>>
    /\ digest' = <<>>
    /\ hphase' = "ready"
    /\ mark' = 0
    /\ recycled' = (hphase # "ready")
    /\ UNCHANGED <<bufvars, lookupvars, aesvars, detectvars, corevars, macvars>>

(***************************************************************************)
(* The name tables (src/hash/mod.rs, src/mac/mod.rs).  A name is the       *)
(* sequence of its bytes; str::cmp orders names byte by byte.              *)
(*   hash: sha224 sha256 sha384 sha512 sha512_224 sha512_256               *)
(*   mac:  hmac-sha224 hmac-sha256 hmac-sha384 hmac-sha512                 *)
(*         hmac-sha512/224 hmac-sha512/256                                 *)
(***************************************************************************)
\* the hash table with sha512 moved behind the names it is a prefix of
ALGORITHMS_by_family ==
    << [name |-> <<115, 104, 97, 50, 50, 52>>,
        make |-> "Sha224::new()"],
       [name |-> <<115, 104, 97, 50, 53, 54>>,
        make |-> "Sha256::new()"],
       [name |-> <<115, 104, 97, 51, 56, 52>>,
        make |-> "Sha384::new()"],
       [name |-> <<115, 104, 97, 53, 49, 50, 95, 50, 50, 52>>,
        make |-> "Sha512_224::new()"],
       [name |-> <<115, 104, 97, 53, 49, 50, 95, 50, 53, 54>>,
        make |-> "Sha512_256::new()"],
       [name |-> <<115, 104, 97, 53, 49, 50>>,
        make |-> "Sha512::new()"] >>

ALGORITHMS ==
    << [name |-> <<115, 104, 97, 50, 50, 52>>,
        make |-> "Sha224::new()"],
       [name |-> <<115, 104, 97, 50, 53, 54>>,
        make |-> "Sha256::new()"],
       [name |-> <<115, 104, 97, 51, 56, 52>>,
        make |-> "Sha384::new()"],
       [name |-> <<115, 104, 97, 53, 49, 50>>,
        make |-> "Sha512::new()"],
       [name |-> <<115, 104, 97, 53, 49, 50, 95, 50, 50, 52>>,
        make |-> "Sha512_224::new()"],
       [name |-> <<115, 104, 97, 53, 49, 50, 95, 50, 53, 54>>,
        make |-> "Sha512_256::new()"] >>

MACS ==
    << [name |-> <<104, 109, 97, 99, 45, 115, 104, 97, 50, 50, 52>>,
        make |-> "Hmac::<Sha224>::new(k)"],
       [name |-> <<104, 109, 97, 99, 45, 115, 104, 97, 50, 53, 54>>,
        make |-> "Hmac::<Sha256>::new(k)"],
       [name |-> <<104, 109, 97, 99, 45, 115, 104, 97, 51, 56, 52>>,
        make |-> "Hmac::<Sha384>::new(k)"],
       [name |-> <<104, 109, 97, 99, 45, 115, 104, 97, 53, 49, 50>>,
        make |-> "Hmac::<Sha512>::new(k)"],
       [name |-> <<104, 109, 97, 99, 45, 115, 104, 97, 53, 49, 50, 47, 50, 50, 52>>,
        make |-> "Hmac::<Sha512_224>::new(k)"],
       [name |-> <<104, 109, 97, 99, 45, 115, 104, 97, 53, 49, 50, 47, 50, 53, 54>>,
        make |-> "Hmac::<Sha512_256>::new(k)"] >>

\* a.cmp(b) on str: the first differing byte decides, then the length
cmp(a, b) ==
    LET differ == {i \in 1 .. Min(Len(a), Len(b)) : a[i] # b[i]}
        at == CHOOSE i \in differ : \A j \in differ : i <= j
    IN  IF differ # {}
        THEN IF a[at] < b[at] THEN "Less" ELSE "Greater"
        ELSE IF Len(a) < Len(b) THEN "Less"
        ELSE IF Len(a) > Len(b) THEN "Greater"
        ELSE "Equal"

\* table.binary_search_by(|x| x.0.cmp(name)) between base and base + size
RECURSIVE binary_search_from(_, _, _, _)
binary_search_from(table, name, base, size) ==
    IF size > 1
    THEN LET half == size \div 2
             mid == base + half
         IN  binary_search_from(table, name,
                 IF cmp(table[mid + 1].name, name) = "Greater" THEN base ELSE mid,
                 size - half)
    ELSE IF cmp(table[base + 1].name, name) = "Equal"
         THEN [ok |-> TRUE, index |-> base]
         ELSE [ok |-> FALSE,
               index |-> base + (IF cmp(table[base + 1].name, name) = "Less"
                                 THEN 1 ELSE 0)]

binary_search_by(table, name) ==
    IF Len(table) = 0
    THEN [ok |-> FALSE, index |-> 0]
    ELSE binary_search_from(table, name, 0, Len(table))

UnknownAlgorithmError_new(name) == [error |-> "UnknownAlgorithmError", name |-> name]

algorithms == [i \in 1 .. Len(ALGORITHMS) |-> ALGORITHMS[i].name]

from_string(name) ==
    LET found == binary_search_by(ALGORITHMS, name)
    IN  IF found.ok
        THEN [ok |-> TRUE, instance |-> [make |-> ALGORITHMS[found.index + 1].make]]
        ELSE [ok |-> FALSE, err |-> UnknownAlgorithmError_new(name)]

list == [i \in 1 .. Len(MACS) |-> MACS[i].name]

from_name(name, key) ==
    LET found == binary_search_by(MACS, name)
    IN  IF found.ok
        THEN [ok |-> TRUE,
              instance |-> [make |-> MACS[found.index + 1].make, k |-> key]]
        ELSE [ok |-> FALSE, err |-> UnknownAlgorithmError_new(name)]

(***************************************************************************)
(* The lookup machine: a caller of the listing and lookup functions.  It   *)
(* asks for the listed names, for their prefixes, and for the listed names *)
(* with one byte appended or replaced.                                     *)
(***************************************************************************)
\* - / 0 2 5 _ z
Alphabet == {45, 47, 48, 50, 53, 95, 122}

Listed == {algorithms[i] : i \in 1 .. Len(algorithms)}
              \cup {list[i] : i \in 1 .. Len(list)}

Variants(t) ==
    {SubSeq(t, 1, k) : k \in 0 .. Len(t)}
        \cup {Append(t, c) : c \in Alphabet}
        \cup {[t EXCEPT ![i] = c] : i \in 1 .. Len(t), c \in Alphabet}

Names == UNION {Variants(t) : t \in Listed}

Keys == {<<>>, <<1, 2>>}

NoKey == <<>>

LookupInit ==
    /\ asked = [fn |-> "none", name |-> <<>>, key |-> NoKey]
    /\ answer = <<>>

\* the calls are independent of each other: the caller makes the next one
\* once it has taken the answer of the last
Idle == asked.fn = "none"

Algorithms ==
    /\ Idle
    /\ asked' = [fn |-> "algorithms", name |-> <<>>, key |-> NoKey]
    /\ answer' = algorithms
    /\ UNCHANGED <<bufvars, hashvars, aesvars, detectvars, corevars, macvars>>

FromString ==
    /\ Idle
    /\ \E name \in Names :
         /\ asked' = [fn |-> "from_string", name |-> name, key |-> NoKey]
         /\ answer' = from_string(name)
    /\ UNCHANGED <<bufvars, hashvars, aesvars, detectvars, corevars, macvars>>

List ==
    /\ Idle
    /\ asked' = [fn |-> "list", name |-> <<>>, key |-> NoKey]
    /\ answer' = list
    /\ UNCHANGED <<bufvars, hashvars, aesvars, detectvars, corevars, macvars>>

FromName ==
    /\ Idle
    /\ \E name \in Names, key \in Keys :
         /\ asked' = [fn |-> "from_name", name |-> name, key |-> key]
         /\ answer' = from_name(name, key)
    /\ UNCHANGED <<bufvars, hashvars, aesvars, detectvars, corevars, macvars>>

\* the caller has taken the answer
Taken ==
    /\ ~Idle
    /\ asked' = [fn |-> "none", name |-> <<>>, key |-> NoKey]
    /\ answer' = <<>>
    /\ UNCHANGED <<bufvars, hashvars, aesvars, detectvars, corevars, macvars>>

(***************************************************************************)
(* The AES instructions of src/cipher/aes/x86.rs.  A __m128i is the        *)
(* sequence of its 16 bytes in memory order; as an AES state, byte         *)
(* 4 * c + r (counted from 0) is row r of column c.                        *)
(***************************************************************************)
\* a __m128i value: the tuple of its 16 bytes
m128i(a) ==
    << a[1], a[2], a[3], a[4], a[5], a[6], a[7], a[8],
       a[9], a[10], a[11], a[12], a[13], a[14], a[15], a[16] >>

\* a function on 0 .. n - 1 as the tuple of its n values (value k at k + 1)
Table(f, n) == SubSeq([k \in 1 .. n |-> f[k - 1]], 1, n)

\* the exclusive or of the low k bits of a and b
RECURSIVE xor_bits(_, _, _)
xor_bits(a, b, k) ==
    IF k = 0 THEN 0
    ELSE ((a + b) % 2) + 2 * xor_bits(a \div 2, b \div 2, k - 1)

\* exclusive or of two bytes, tabulated
XOR8 ==
    Table([a \in 0 .. 255 |->
        Table([b \in 0 .. 255 |-> xor_bits(a, b, 8)], 256)], 256)

\* the exclusive or of two bytes
xor(a, b) == XOR8[a + 1][b + 1]

\* multiplication by x in GF(2^8) modulo x^8 + x^4 + x^3 + x + 1
xtime(a) == xor((2 * a) % 256, IF a >= 128 THEN 27 ELSE 0)

\* a times b in GF(2^8), by the bits of b from the lowest (FIPS 197, 4.2)
RECURSIVE gmul(_, _)
gmul(a, b) ==
    IF b = 0 THEN 0
    ELSE xor(IF b % 2 = 1 THEN a ELSE 0, gmul(xtime(a), b \div 2))

\* the products c * a for the coefficients c = 1 .. 14 of MixColumns and
\* InvMixColumns, tabulated: GMul[c][a + 1]
GMul ==
    SubSeq([c \in 1 .. 14 |-> Table([a \in 0 .. 255 |-> gmul(a, c)], 256)],
           1, 14)

\* the substitution table of SubBytes (FIPS 197, figure 7)
SBox ==
    <<  99, 124, 119, 123, 242, 107, 111, 197,  48,   1, 103,  43, 254, 215, 171, 118,
       202, 130, 201, 125, 250,  89,  71, 240, 173, 212, 162, 175, 156, 164, 114, 192,
       183, 253, 147,  38,  54,  63, 247, 204,  52, 165, 229, 241, 113, 216,  49,  21,
         4, 199,  35, 195,  24, 150,   5, 154,   7,  18, 128, 226, 235,  39, 178, 117,
         9, 131,  44,  26,  27, 110,  90, 160,  82,  59, 214, 179,  41, 227,  47, 132,
        83, 209,   0, 237,  32, 252, 177,  91, 106, 203, 190,  57,  74,  76,  88, 207,
       208, 239, 170, 251,  67,  77,  51, 133,  69, 249,   2, 127,  80,  60, 159, 168,
        81, 163,  64, 143, 146, 157,  56, 245, 188, 182, 218,  33,  16, 255, 243, 210,
       205,  12,  19, 236,  95, 151,  68,  23, 196, 167, 126,  61, 100,  93,  25, 115,
        96, 129,  79, 220,  34,  42, 144, 136,  70, 238, 184,  20, 222,  94,  11, 219,
       224,  50,  58,  10,  73,   6,  36,  92, 194, 211, 172,  98, 145, 149, 228, 121,
       231, 200,  55, 109, 141, 213,  78, 169, 108,  86, 244, 234, 101, 122, 174,   8,
       186, 120,  37,  46,  28, 166, 180, 198, 232, 221, 116,  31,  75, 189, 139, 138,
       112,  62, 181, 102,  72,   3, 246,  14,  97,  53,  87, 185, 134, 193,  29, 158,
       225, 248, 152,  17, 105, 217, 142, 148, 155,  30, 135, 233, 206,  85,  40, 223,
       140, 161, 137,  13, 191, 230,  66, 104,  65, 153,  45,  15, 176,  84, 187,  22 >>

InvSBox == Table([y \in 0 .. 255 |-> CHOOSE x \in 0 .. 255 : SBox[x + 1] = y], 256)

SubBytes(s) == m128i([i \in 1 .. 16 |-> SBox[s[i] + 1]])

InvSubBytes(s) == m128i([i \in 1 .. 16 |-> InvSBox[s[i] + 1]])

\* row r (bytes r + 1, r + 5, r + 9, r + 13) is rotated left by r columns
ShiftRows(s) ==
    << s[1], s[6], s[11], s[16], s[5], s[10], s[15], s[4],
       s[9], s[14], s[3], s[8], s[13], s[2], s[7], s[12] >>

\* row r is rotated right by r columns
InvShiftRows(s) ==
    << s[1], s[14], s[11], s[8], s[5], s[2], s[15], s[12],
       s[9], s[6], s[3], s[16], s[13], s[10], s[7], s[4] >>

\* the tuple of the four values of f on 0 .. 3, and four tuples joined
tuple4(f) == <<f[0], f[1], f[2], f[3]>>

concat4(f) == f[0] \o f[1] \o f[2] \o f[3]

\* the product of the matrix row m and the column col, over the products T
MixRow(T, m, col) ==
    xor(xor(T[m[1]][col[1] + 1], T[m[2]][col[2] + 1]),
        xor(T[m[3]][col[3] + 1], T[m[4]][col[4] + 1]))

\* row r of the circulant matrix of first row m
MixMatrixRow(m, r) ==
    <<m[((4 - r) % 4) + 1], m[((5 - r) % 4) + 1],
      m[((6 - r) % 4) + 1], m[((7 - r) % 4) + 1]>>

\* one column times the circulant matrix of first row m
MixColumn(T, m, col) ==
    tuple4([r \in 0 .. 3 |-> MixRow(T, MixMatrixRow(m, r), col)])

\* every column of s times the circulant matrix of first row m
MixColumnsBy(m, s) ==
    concat4([c \in 0 .. 3 |->
        MixColumn(GMul, m, SubSeq(s, 4 * c + 1, 4 * c + 4))])

\* the matrix of first row 02 03 01 01 (FIPS 197, 5.1.3)
MixColumns(s) == MixColumnsBy(<<2, 3, 1, 1>>, s)

\* the matrix of first row 0e 0b 0d 09 (FIPS 197, 5.3.3)
InvMixColumns(s) == MixColumnsBy(<<14, 11, 13, 9>>, s)

mm_xor_si128(a, b) == m128i([i \in 1 .. 16 |-> xor(a[i], b[i])])

mm_aesenc_si128(a, RoundKey) ==
    mm_xor_si128(MixColumns(SubBytes(ShiftRows(a))), RoundKey)

mm_aesenclast_si128(a, RoundKey) ==
    mm_xor_si128(SubBytes(ShiftRows(a)), RoundKey)

mm_aesdec_si128(a, RoundKey) ==
    mm_xor_si128(InvMixColumns(InvSubBytes(InvShiftRows(a))), RoundKey)

mm_aesdeclast_si128(a, RoundKey) ==
    mm_xor_si128(InvSubBytes(InvShiftRows(a)), RoundKey)

mm_aesimc_si128(a) == InvMixColumns(a)

\* 32-bit element j (counted from 0) of a
dword(a, j) == SubSeq(a, 4 * j + 1, 4 * j + 4)

\* element j of the result is element (imm8 >> 2j) & 3 of a
mm_shuffle_epi32(a, imm8) ==
    dword(a, imm8 % 4) \o dword(a, (imm8 \div 4) % 4)
        \o dword(a, (imm8 \div 16) % 4) \o dword(a, (imm8 \div 64) % 4)

\* a shifted left by imm8 bytes, zeros shifted in
mm_slli_si128(a, imm8) ==
    m128i([i \in 1 .. 16 |-> IF i > imm8 THEN a[i - imm8] ELSE 0])

\* the low half is a half of a, the high half a half of b, as the mask says
mm_shuffle_pd(a, b, MASK) ==
    (IF MASK % 2 = 1 THEN SubSeq(a, 9, 16) ELSE SubSeq(a, 1, 8))
        \o (IF (MASK \div 2) % 2 = 1 THEN SubSeq(b, 9, 16) ELSE SubSeq(b, 1, 8))

SubWord(x) == SubSeq([i \in 1 .. 4 |-> SBox[x[i] + 1]], 1, 4)

RotWord(x) == <<x[2], x[3], x[4], x[1]>>

\* the word R with rcon added to its first byte
xor_rcon(R, rcon) == <<xor(R[1], rcon), R[2], R[3], R[4]>>

\* X and RotWord(X) ^ rcon, for a substituted word X
keygen_half(X, rcon) == X \o xor_rcon(RotWord(X), rcon)

\* SubWord(X1), RotWord(SubWord(X1)) ^ rcon, SubWord(X3), RotWord(SubWord(X3)) ^ rcon
mm_aeskeygenassist_si128(a, rcon) ==
    keygen_half(SubWord(dword(a, 1)), rcon)
        \o keygen_half(SubWord(dword(a, 3)), rcon)

\* 16 bytes of memory from offset at (counted from 0)
mm_loadu_si128(mem, at) == SubSeq(mem, at + 1, at + 16)

\* 8 bytes of memory in the low half, zeros in the high half
mm_loadu_si64(mem, at) == SubSeq(mem, at + 1, at + 8) \o <<0, 0, 0, 0, 0, 0, 0, 0>>

(***************************************************************************)
(* Key expansion, inverse schedule and the block functions of x86.rs.      *)
(***************************************************************************)
\* c = _mm_slli_si128(c, 4); a = _mm_xor_si128(a, c); n times over
RECURSIVE assist_shift_xor(_, _, _)
RECURSIVE assist_xor(_, _, _)
assist_shift_xor(a, c, n) ==
    IF n = 0 THEN a ELSE assist_xor(a, mm_slli_si128(c, 4), n)

assist_xor(a, c, n) == assist_shift_xor(mm_xor_si128(a, c), c, n - 1)

\* assist that broadcasts element 1 of b where the closure takes element 3
expand_key128_assist_element1(a, b) ==
    mm_xor_si128(assist_shift_xor(a, a, 3), mm_shuffle_epi32(b, 85))

\* the closure assist of expand_key128 (and assist1 of expand_key256)
expand_key128_assist(a, b) ==
    mm_xor_si128(assist_shift_xor(a, a, 3), mm_shuffle_epi32(b, 255))

\* the round constants of expand_key128, in the order of its assist calls
Rcon128 == <<1, 2, 4, 8, 16, 32, 64, 128, 27, 54>>

\* the round key that follows the round key t
expand_key128_next(t, rcon) ==
    expand_key128_assist(t, mm_aeskeygenassist_si128(t, rcon))

RECURSIVE expand_key128_from(_, _)
expand_key128_from(w, i) ==
    IF i > Len(Rcon128) THEN w
    ELSE expand_key128_from(
             Append(w, expand_key128_next(w[Len(w)], Rcon128[i])), i + 1)

expand_key128(key) == expand_key128_from(<<mm_loadu_si128(key, 0)>>, 1)

expand_key192_shuffle(MASK, a, b) == mm_shuffle_pd(a, b, MASK)

\* the second half of the closure assist of expand_key192: c from the new a
expand_key192_assist_c(a, c) ==
    [a |-> a,
     b |-> mm_xor_si128(mm_xor_si128(c, mm_slli_si128(c, 4)),
                        mm_shuffle_epi32(a, 255))]

\* the closure assist of expand_key192: the pair (a, c) it returns
expand_key192_assist(a, b, c) ==
    expand_key192_assist_c(
        mm_xor_si128(assist_shift_xor(a, a, 3), mm_shuffle_epi32(b, 85)), c)

\* one step of expand_key192: assist(a, aeskeygenassist(b, rcon), b)
expand_key192_step(p, rcon) ==
    expand_key192_assist(p.a, mm_aeskeygenassist_si128(p.b, rcon), p.b)

\* the round constants of expand_key192, in the order of its assist calls
Rcon192 == <<1, 2, 4, 8, 16, 32, 64, 128>>

\* the pairs (a, b) of expand_key192: the loaded one, then one per assist
RECURSIVE expand_key192_from(_, _)
expand_key192_from(p, i) ==
    IF i > Len(Rcon192) THEN p
    ELSE expand_key192_from(
             Append(p, expand_key192_step(p[Len(p)], Rcon192[i])), i + 1)

\* the round keys expand_key192 stores, from its pairs p (p[1] the loaded one)
expand_key192_store(p) ==
    << p[1].a,
       expand_key192_shuffle(0, p[1].b, p[2].a),
       expand_key192_shuffle(1, p[2].a, p[2].b),
       p[3].a,
       expand_key192_shuffle(0, p[3].b, p[4].a),
       expand_key192_shuffle(1, p[4].a, p[4].b),
       p[5].a,
       expand_key192_shuffle(0, p[5].b, p[6].a),
       expand_key192_shuffle(1, p[6].a, p[6].b),
       p[7].a,
       expand_key192_shuffle(0, p[7].b, p[8].a),
       expand_key192_shuffle(1, p[8].a, p[8].b),
       p[9].a >>

expand_key192(key) ==
    expand_key192_store(
        expand_key192_from(
            <<[a |-> mm_loadu_si128(key, 0), b |-> mm_loadu_si64(key, 16)]>>,
            1))

\* the closure assist2 of expand_key256: the second half b it returns
expand_key256_assist2(a, b) ==
    mm_xor_si128(assist_shift_xor(b, b, 3),
                 mm_shuffle_epi32(mm_aeskeygenassist_si128(a, 0), 170))

\* the round constants of expand_key256, in the order of its assist1 calls
Rcon256 == <<1, 2, 4, 8, 16, 32, 64>>

RECURSIVE expand_key256_from(_, _)
RECURSIVE expand_key256_store(_, _, _, _)
\* assist1 on the last two round keys, then what is stored
expand_key256_from(w, i) ==
    expand_key256_store(
        w,
        expand_key128_assist(w[Len(w) - 1],
            mm_aeskeygenassist_si128(w[Len(w)], Rcon256[i])),
        w[Len(w)], i)

\* the result a of assist1 is stored; but for the last one, assist2 on a and
\* the previous second half b follows
expand_key256_store(w, a, b, i) ==
    IF i = Len(Rcon256) THEN Append(w, a)
    ELSE expand_key256_from(
             Append(Append(w, a), expand_key256_assist2(a, b)), i + 1)

expand_key256(key) ==
    expand_key256_from(<<mm_loadu_si128(key, 0), mm_loadu_si128(key, 16)>>, 1)

\* the schedule reversed, no round key transformed
invert_key_reversed(w) == [i \in 1 .. Len(w) |-> w[Len(w) + 1 - i]]

\* the schedule reversed, every round key transformed
invert_key_all(w) == [i \in 1 .. Len(w) |-> mm_aesimc_si128(w[Len(w) + 1 - i])]

\* dw[0] = w[N - 1], dw[i] = aesimc(w[N - 1 - i]), dw[N - 1] = w[0]
invert_key(w) ==
    [i \in 1 .. Len(w) |->
        IF i = 1 THEN w[Len(w)]
        ELSE IF i = Len(w) THEN w[1]
        ELSE mm_aesimc_si128(w[Len(w) + 1 - i])]

\* one round of crypt! on one register: op, or its last form
crypt_round(op, last, r, RoundKey) ==
    CASE op = "aesenc" /\ ~last -> mm_aesenc_si128(r, RoundKey)
      [] op = "aesenc" /\ last -> mm_aesenclast_si128(r, RoundKey)
      [] op = "aesdec" /\ ~last -> mm_aesdec_si128(r, RoundKey)
      [] op = "aesdec" /\ last -> mm_aesdeclast_si128(r, RoundKey)

\* the rounds of crypt! on one register r: op under key[1 .. ROUNDS - 1],
\* then the last form under key[ROUNDS] (key counted from 0).  The test of
\* the register's length has each round evaluated before the next one starts.
RECURSIVE crypt_rounds(_, _, _, _, _)
crypt_rounds(op, r, key, round, ROUNDS) ==
    IF round <= ROUNDS /\ Len(r) = 16
    THEN crypt_rounds(op, crypt_round(op, round = ROUNDS, r, key[round + 1]),
                      key, round + 1, ROUNDS)
    ELSE r

\* crypt!: n blocks of the source slice from, starting at block offset
\* at.src, are transformed and stored into at.mem from block offset at.dst,
\* in that order (stores lists the block offsets written so far); the
\* pointers src and dst are returned advanced by n.  The key pointer is a
\* copy, so every call starts at key[0].
crypt(op, n, ROUNDS, key, from, at) ==
    [src |-> at.src + n,
     dst |-> at.dst + n,
     mem |-> SubSeq(at.mem, 1, at.dst)
                 \o [j \in 1 .. n |->
                        crypt_rounds(op,
                            mm_xor_si128(from[at.src + j], key[1]),
                            key, 1, ROUNDS)]
                 \o SubSeq(at.mem, at.dst + n + 1, Len(at.mem)),
     stores |-> at.stores \o [j \in 1 .. n |-> at.dst + j - 1]]

\* def_encrypt_blocks!/def_decrypt_blocks!: the test of the batching loop
while_blocks_over_8(blocks) == blocks > 8

while_blocks(blocks) == blocks >= 8

\* the count of the crypt! the match runs on what the loop left: the arms
\* 7 .. 1, and the arm _ that does nothing
match_blocks(blocks) ==
    CASE blocks = 7 -> 7
      [] blocks = 6 -> 6
      [] blocks = 5 -> 5
      [] blocks = 4 -> 4
      [] blocks = 3 -> 3
      [] blocks = 2 -> 2
      [] blocks = 1 -> 1
      [] OTHER -> 0

\* the loop and the match of def_encrypt_blocks!/def_decrypt_blocks!: from is
\* the source slice; at holds the pointers src and dst, the destination
\* slice and the block offsets stored so far
RECURSIVE crypt_blocks(_, _, _, _, _, _)
crypt_blocks(op, ROUNDS, key, blocks, from, at) ==
    IF while_blocks(blocks)
    THEN crypt_blocks(op, ROUNDS, key, blocks - 8, from,
                      crypt(op, 8, ROUNDS, key, from, at))
    ELSE crypt(op, match_blocks(blocks), ROUNDS, key, from, at)

\* where a call starts: both pointers at the start of their slices
as_ptr(mem) == [src |-> 0, dst |-> 0, mem |-> mem, stores |-> <<>>]

\* what a call leaves: whether it panicked, the destination slice and the
\* block offsets stored, in order
outcome(panic, at) == [panic |-> panic, mem |-> at.mem, stores |-> at.stores]

\* assert_eq!(plaintext.len(), ciphertext.len()) moved behind the loop
encrypt_blocks_check_last(self, ROUNDS, plaintext, ciphertext) ==
    outcome(Len(plaintext) # Len(ciphertext),
            crypt_blocks("aesenc", ROUNDS, self.w,
                IF Len(plaintext) < Len(ciphertext)
                THEN Len(plaintext) ELSE Len(ciphertext),
                plaintext, as_ptr(ciphertext)))

\* def_encrypt_blocks!
encrypt_blocks(self, ROUNDS, plaintext, ciphertext) ==
    IF Len(plaintext) # Len(ciphertext)
    THEN outcome(TRUE, as_ptr(ciphertext))
    ELSE outcome(FALSE,
                 crypt_blocks("aesenc", ROUNDS, self.w, Len(plaintext),
                              plaintext, as_ptr(ciphertext)))

\* def_decrypt_blocks!: the same over the inverse schedule
decrypt_blocks(self, ROUNDS, ciphertext, plaintext) ==
    IF Len(ciphertext) # Len(plaintext)
    THEN outcome(TRUE, as_ptr(plaintext))
    ELSE outcome(FALSE,
                 crypt_blocks("aesdec", ROUNDS, self.dw, Len(ciphertext),
                              ciphertext, as_ptr(plaintext)))

\* Result<T, Error>
Ok(value) == [ok |-> TRUE, value |-> value]

Err(error) == [ok |-> FALSE, error |-> error]

\* key.try_into() accepting every key that is long enough, cut to its prefix
try_into_prefix(key, key_size) ==
    IF Len(key) >= key_size THEN Ok(SubSeq(key, 1, key_size))
    ELSE Err("InvalidKeyLength")

\* key.try_into().map_err(|_| Error::InvalidKeyLength) to &[u8; key_size]
try_into(key, key_size) ==
    IF Len(key) = key_size THEN Ok(key) ELSE Err("InvalidKeyLength")

\* the types defined by def_aes_encrypt! and def_aes!
Accelerated ==
    [AcceleratedAes128Encrypt |->
        [key_size |-> 16, rounds |-> 10, expand_key |-> "expand_key128",
         macro |-> "def_aes_encrypt"],
     AcceleratedAes192Encrypt |->
        [key_size |-> 24, rounds |-> 12, expand_key |-> "expand_key192",
         macro |-> "def_aes_encrypt"],
     AcceleratedAes256Encrypt |->
        [key_size |-> 32, rounds |-> 14, expand_key |-> "expand_key256",
         macro |-> "def_aes_encrypt"],
     AcceleratedAes128 |->
        [key_size |-> 16, rounds |-> 10, expand_key |-> "expand_key128",
         macro |-> "def_aes"],
     AcceleratedAes192 |->
        [key_size |-> 24, rounds |-> 12, expand_key |-> "expand_key192",
         macro |-> "def_aes"],
     AcceleratedAes256 |->
        [key_size |-> 32, rounds |-> 14, expand_key |-> "expand_key256",
         macro |-> "def_aes"]]

\* $expand_key(key)
expand_key(name, key) ==
    CASE name = "expand_key128" -> expand_key128(key)
      [] name = "expand_key192" -> expand_key192(key)
      [] name = "expand_key256" -> expand_key256(key)

\* def_aes_encrypt!: NewUsingKey::new and Rekey::rekey of a type T
def_aes_encrypt_new(T, key) ==
    LET k == try_into(key, T.key_size)
    IN  IF ~k.ok THEN k
        ELSE Ok([w |-> expand_key(T.expand_key, k.value)])

def_aes_encrypt_rekey(self, T, key) ==
    LET k == try_into(key, T.key_size)
    IN  IF ~k.ok THEN [self |-> self, result |-> k]
        ELSE [self |-> [w |-> expand_key(T.expand_key, k.value)],
              result |-> Ok(<<>>)]

\* Self { w, dw } with dw = invert_key(&w)
with_inverse(w) == [w |-> w, dw |-> invert_key(w)]

\* def_aes!: NewUsingKey::new of a type T
def_aes_new(T, key) ==
    LET k == try_into(key, T.key_size)
    IN  IF ~k.ok THEN k
        ELSE Ok(with_inverse(expand_key(T.expand_key, k.value)))

\* rekey that clears the schedules before it looks at the key
def_aes_rekey_clear_first(self, T, key) ==
    LET k == try_into(key, T.key_size)
    IN  IF ~k.ok THEN [self |-> [w |-> <<>>, dw |-> <<>>], result |-> k]
        ELSE [self |-> with_inverse(expand_key(T.expand_key, k.value)),
              result |-> Ok(<<>>)]

\* rekey that leaves the inverse schedule as it was
def_aes_rekey_forward_only(self, T, key) ==
    LET k == try_into(key, T.key_size)
    IN  IF ~k.ok THEN [self |-> self, result |-> k]
        ELSE [self |-> [w |-> expand_key(T.expand_key, k.value),
                        dw |-> self.dw],
              result |-> Ok(<<>>)]

\* rekey that keeps the first round key of the schedule it replaces
def_aes_rekey_keep_first(self, T, key) ==
    LET k == try_into(key, T.key_size)
    IN  IF ~k.ok THEN [self |-> self, result |-> k]
        ELSE [self |-> with_inverse([expand_key(T.expand_key, k.value)
                                        EXCEPT ![1] = self.w[1]]),
              result |-> Ok(<<>>)]

\* def_aes!: Rekey::rekey of a type T
def_aes_rekey(self, T, key) ==
    LET k == try_into(key, T.key_size)
    IN  IF ~k.ok THEN [self |-> self, result |-> k]
        ELSE [self |-> with_inverse(expand_key(T.expand_key, k.value)),
              result |-> Ok(<<>>)]

(***************************************************************************)
(* The software engine soft::Aes128/192/256, as section 4.4 of the         *)
(* specification describes it: the key expansion, cipher and equivalent    *)
(* inverse cipher of FIPS 197 (figures 11, 5 and 15).                      *)
(***************************************************************************)
Soft ==
    [Aes128 |-> [key_size |-> 16, rounds |-> 10],
     Aes192 |-> [key_size |-> 24, rounds |-> 12],
     Aes256 |-> [key_size |-> 32, rounds |-> 14]]

xor_word(a, b) == <<xor(a[1], b[1]), xor(a[2], b[2]), xor(a[3], b[3]), xor(a[4], b[4])>>

\* words Nk .. 4 * (Nr + 1) - 1 of the expanded key, after its first Nk words
RECURSIVE soft_KeyExpansion(_, _, _)
soft_KeyExpansion(words, Nk, Nr) ==
    LET i == Len(words)
        prev == words[i]
        temp == IF i % Nk = 0
                THEN xor_word(SubWord(RotWord(prev)),
                              <<Rcon128[i \div Nk], 0, 0, 0>>)
                ELSE IF Nk > 6 /\ i % Nk = 4 THEN SubWord(prev)
                ELSE prev
    IN  IF i = 4 * (Nr + 1) THEN words
        ELSE soft_KeyExpansion(
                 Append(words, xor_word(words[i - Nk + 1], temp)), Nk, Nr)

\* the round keys, four words each
soft_round_keys(words, Nr) ==
    [i \in 1 .. Nr + 1 |->
        words[4 * i - 3] \o words[4 * i - 2]
            \o words[4 * i - 1] \o words[4 * i]]

soft_expand_key(T, key) ==
    soft_round_keys(
        soft_KeyExpansion(
            [i \in 1 .. T.key_size \div 4 |-> SubSeq(key, 4 * i - 3, 4 * i)],
            T.key_size \div 4, T.rounds),
        T.rounds)

\* reversed, InvMixColumns on every round key but the first and the last
soft_invert_key(w) ==
    [i \in 1 .. Len(w) |->
        IF i = 1 \/ i = Len(w) THEN w[Len(w) + 1 - i]
        ELSE InvMixColumns(w[Len(w) + 1 - i])]

RECURSIVE soft_Cipher(_, _, _)
soft_Cipher(state, w, round) ==
    IF round < Len(w) - 1 /\ Len(state) = 16
    THEN soft_Cipher(
             mm_xor_si128(MixColumns(ShiftRows(SubBytes(state))), w[round + 1]),
             w, round + 1)
    ELSE mm_xor_si128(ShiftRows(SubBytes(state)), w[round + 1])

RECURSIVE soft_EqInvCipher(_, _, _)
soft_EqInvCipher(state, dw, round) ==
    IF round < Len(dw) - 1 /\ Len(state) = 16
    THEN soft_EqInvCipher(
             mm_xor_si128(InvMixColumns(InvShiftRows(InvSubBytes(state))),
                          dw[round + 1]),
             dw, round + 1)
    ELSE mm_xor_si128(InvShiftRows(InvSubBytes(state)), dw[round + 1])

\* [w, dw] of a forward schedule
soft_schedules(w) == [w |-> w, dw |-> soft_invert_key(w)]

soft_new(T, key) ==
    IF Len(key) # T.key_size THEN Err("InvalidKeyLength")
    ELSE Ok(soft_schedules(soft_expand_key(T, key)))

soft_rekey(self, T, key) ==
    IF Len(key) # T.key_size
    THEN [self |-> self, result |-> Err("InvalidKeyLength")]
    ELSE [self |-> soft_schedules(soft_expand_key(T, key)),
          result |-> Ok(<<>>)]

soft_encrypt_blocks(self, plaintext, ciphertext) ==
    IF Len(plaintext) # Len(ciphertext)
    THEN outcome(TRUE, as_ptr(ciphertext))
    ELSE [panic |-> FALSE,
          mem |-> [j \in 1 .. Len(plaintext) |->
                      soft_Cipher(mm_xor_si128(plaintext[j], self.w[1]),
                                  self.w, 1)],
          stores |-> [j \in 1 .. Len(plaintext) |-> j - 1]]

soft_decrypt_blocks(self, ciphertext, plaintext) ==
    IF Len(ciphertext) # Len(plaintext)
    THEN outcome(TRUE, as_ptr(plaintext))
    ELSE [panic |-> FALSE,
          mem |-> [j \in 1 .. Len(ciphertext) |->
                      soft_EqInvCipher(mm_xor_si128(ciphertext[j], self.dw[1]),
                                       self.dw, 1)],
          stores |-> [j \in 1 .. Len(ciphertext) |-> j - 1]]

(***************************************************************************)
(* The enums of x86.rs and the macros of src/cipher/mod.rs that define     *)
(* them: variant Hw when is_aes_detected(), else the default variant Sw.   *)
(***************************************************************************)
Enums ==
    [Aes128Encrypt |-> [Hw |-> "AcceleratedAes128Encrypt", Sw |-> "Aes128",
                        macro |-> "define_encrypting_block_cipher_enum"],
     Aes192Encrypt |-> [Hw |-> "AcceleratedAes192Encrypt", Sw |-> "Aes192",
                        macro |-> "define_encrypting_block_cipher_enum"],
     Aes256Encrypt |-> [Hw |-> "AcceleratedAes256Encrypt", Sw |-> "Aes256",
                        macro |-> "define_encrypting_block_cipher_enum"],
     Aes128 |-> [Hw |-> "AcceleratedAes128", Sw |-> "Aes128",
                 macro |-> "define_block_cipher_enum"],
     Aes192 |-> [Hw |-> "AcceleratedAes192", Sw |-> "Aes192",
                 macro |-> "define_block_cipher_enum"],
     Aes256 |-> [Hw |-> "AcceleratedAes256", Sw |-> "Aes256",
                 macro |-> "define_block_cipher_enum"]]

\* DETECTED.get_or_init(|| cpu_aes::init().get()) on a OnceBool holding once
\* (<<>> before the first call, <<value>> after), token being what the
\* probe cpu_aes::init().get() answers on this processor
is_aes_detected(once, token) ==
    IF once = <<>> THEN [DETECTED |-> <<token>>, value |-> token]
    ELSE [DETECTED |-> once, value |-> once[1]]

\* new and rekey of an x86.rs type, by the macro that defines it
Accelerated_new(name, key) ==
    IF Accelerated[name].macro = "def_aes"
    THEN def_aes_new(Accelerated[name], key)
    ELSE def_aes_encrypt_new(Accelerated[name], key)

Accelerated_rekey(inner, name, key) ==
    IF Accelerated[name].macro = "def_aes"
    THEN def_aes_rekey(inner, Accelerated[name], key)
    ELSE def_aes_encrypt_rekey(inner, Accelerated[name], key)

\* Ok($name::$variant(inner)) of an inner value, or the inner error
Variant(name, variant, inner) ==
    IF ~inner.ok THEN inner
    ELSE Ok([type |-> name, variant |-> variant, inner |-> inner.value])

\* new that takes the default variant whatever the condition says
impl_new_from_key_for_enum_default(name, key, detected) ==
    Variant(name, "Sw", soft_new(Soft[Enums[name].Sw], key))

\* impl_new_from_key_for_enum!: the value of $name::new(key), detected being
\* the value of the variant's condition
impl_new_from_key_for_enum(name, key, detected) ==
    IF detected
    THEN Variant(name, "Hw", Accelerated_new(Enums[name].Hw, key))
    ELSE Variant(name, "Sw", soft_new(Soft[Enums[name].Sw], key))

\* self after the inner rekey has run, and the result of that rekey
Forwarded(self, done) ==
    [self |-> [self EXCEPT !.inner = done.self], result |-> done.result]

\* impl_rekey_for_enum!: match self, forwarding to the inner value
impl_rekey_for_enum(self, key) ==
    Forwarded(self,
        CASE self.variant = "Hw" ->
                 Accelerated_rekey(self.inner, Enums[self.type].Hw, key)
          [] self.variant = "Sw" ->
                 soft_rekey(self.inner, Soft[Enums[self.type].Sw], key))

\* impl_encrypt_blocks_for_enum!
impl_encrypt_blocks_for_enum(self, plaintext, ciphertext) ==
    CASE self.variant = "Hw" ->
             encrypt_blocks(self.inner, Accelerated[Enums[self.type].Hw].rounds,
                            plaintext, ciphertext)
      [] self.variant = "Sw" ->
             soft_encrypt_blocks(self.inner, plaintext, ciphertext)

\* impl_decrypt_blocks_for_enum!, of the enums define_block_cipher_enum! defines
impl_decrypt_blocks_for_enum(self, ciphertext, plaintext) ==
    CASE self.variant = "Hw" ->
             decrypt_blocks(self.inner, Accelerated[Enums[self.type].Hw].rounds,
                            ciphertext, plaintext)
      [] self.variant = "Sw" ->
             soft_decrypt_blocks(self.inner, ciphertext, plaintext)

(***************************************************************************)
(* The AES machine: one cipher instance of an enum of x86.rs, built by     *)
(* new, rekeyed, and used by encrypt_blocks and decrypt_blocks.  aescall   *)
(* holds the latest call and its outcome until the caller has taken it.    *)
(***************************************************************************)
\* the key of the given length in family seed
AesKey(seed, length) == [i \in 1 .. length |-> (i - 1 + 37 * seed * i) % 256]

KeySeeds == {0, 1}

AesKeys == {AesKey(seed, length) : seed \in KeySeeds, length \in 0 .. MaxKeyLength}

\* source block j of a call, and what the destination holds before the call
Block(j) == [i \in 1 .. 16 |-> IF i = 1 THEN j ELSE (j * i + 31) % 256]

Source(n) == [j \in 1 .. n |-> Block(j)]

Stale(m) == [j \in 1 .. m |-> [i \in 1 .. 16 |-> 255 - j]]

NoCipher == [type |-> "none"]

NoAesCall == [fn |-> "none"]

AesIdle == aescall.fn = "none"

AesInit ==
    /\ DETECTED = <<>>
    /\ cipher = NoCipher
    /\ keyed = <<>>
    /\ aescall = NoAesCall

\* the record of a call on blocks: done is what the call left
called(fn, n, m, done) ==
    [fn |-> fn, src |-> n, dst |-> m,
     panic |-> done.panic, mem |-> done.mem, stores |-> done.stores]

\* what new leaves: made is the value of $name::new(key)
AesMade(name, key, made) ==
    /\ cipher' = IF made.ok THEN made.value ELSE cipher
    /\ keyed' = IF made.ok THEN key ELSE keyed
    /\ aescall' = [fn |-> "new", type |-> name, key |-> key,
                   made |-> made.ok,
                   result |-> IF made.ok THEN Ok("Self") ELSE made]

\* what is_aes_detected leaves and answers: detected is its outcome
AesDetected(name, key, detected) ==
    /\ DETECTED' = detected.DETECTED
    /\ AesMade(name, key,
               impl_new_from_key_for_enum(name, key, detected.value))

AesNew ==
    \E name \in DOMAIN Enums, key \in AesKeys, token \in BOOLEAN :
        /\ AesIdle
        /\ AesDetected(name, key, is_aes_detected(DETECTED, token))
        /\ UNCHANGED <<bufvars, hashvars, lookupvars, detectvars, corevars, macvars>>

\* what rekey leaves: done is the outcome of self.rekey(key)
AesRekeyed(key, done) ==
    /\ cipher' = done.self
    /\ keyed' = IF done.result.ok THEN key ELSE keyed
    /\ aescall' = [fn |-> "rekey", type |-> cipher.type, key |-> key,
                   held |-> keyed, result |-> done.result]

AesRekey ==
    \E key \in AesKeys :
        /\ AesIdle
        /\ cipher # NoCipher
        /\ AesRekeyed(key, impl_rekey_for_enum(cipher, key))
        /\ UNCHANGED DETECTED
        /\ UNCHANGED <<bufvars, hashvars, lookupvars, detectvars, corevars, macvars>>

EncryptBlocks ==
    \E n \in 0 .. MaxBlocks, m \in 0 .. MaxBlocks :
        /\ AesIdle
        /\ cipher # NoCipher
        /\ aescall' = called("encrypt_blocks", n, m,
                           impl_encrypt_blocks_for_enum(cipher, Source(n), Stale(m)))
        /\ UNCHANGED <<DETECTED, cipher, keyed>>
        /\ UNCHANGED <<bufvars, hashvars, lookupvars, detectvars, corevars, macvars>>

DecryptBlocks ==
    \E n \in 0 .. MaxBlocks, m \in 0 .. MaxBlocks :
        /\ AesIdle
        /\ cipher # NoCipher
        /\ Enums[cipher.type].macro = "define_block_cipher_enum"
        /\ aescall' = called("decrypt_blocks", n, m,
                           impl_decrypt_blocks_for_enum(cipher, Source(n), Stale(m)))
        /\ UNCHANGED <<DETECTED, cipher, keyed>>
        /\ UNCHANGED <<bufvars, hashvars, lookupvars, detectvars, corevars, macvars>>

AesTaken ==
    /\ ~AesIdle
    /\ aescall' = NoAesCall
    /\ UNCHANGED <<DETECTED, cipher, keyed>>
    /\ UNCHANGED <<bufvars, hashvars, lookupvars, detectvars, corevars, macvars>>

(***************************************************************************)
(* is_aes_detected called from several threads (x86.rs:34-42).  DETECTED   *)
(* is a once_cell::race::OnceBool: get_or_init loads the cell and returns  *)
(* what it holds; on an empty cell it runs the closure, stores the value   *)
(* by a compare-exchange against the empty cell, and returns the value     *)
(* the cell holds after that.  Several threads may run the closure.        *)
(***************************************************************************)
Threads == 1 .. MaxThreads

\* a thread between calls; calls counts the calls it has made
Outside(calls) == [pc |-> "outside", calls |-> calls]

DetectInit ==
    /\ thread = [t \in Threads |-> Outside(0)]
    /\ returned = {}

\* OnceBool::get_or_init, the load: the value held, if any
get(once) ==
    IF once = <<>> THEN [some |-> FALSE]
    ELSE [some |-> TRUE, value |-> once[1]]

\* the exchange that stores whether or not the cell is still empty
exchange_always(once, value) == [DETECTED |-> <<value>>, value |-> value]

\* OnceBool::get_or_init, the compare-exchange: value is stored into an empty
\* cell only, and the value the cell then holds is the one returned
compare_exchange(once, value) ==
    IF once = <<>> THEN [DETECTED |-> <<value>>, value |-> value]
    ELSE [DETECTED |-> once, value |-> once[1]]

\* every other variable of the cipher, and of the other machines
DetectFrame ==
    /\ UNCHANGED <<cipher, keyed, aescall>>
    /\ UNCHANGED <<bufvars, hashvars, lookupvars, corevars, macvars>>

\* a thread enters is_aes_detected and get_or_init loads the cell
DetectLoad ==
    \E t \in Threads :
        /\ thread[t].pc = "outside"
        /\ thread[t].calls < MaxCalls
        /\ thread' = [thread EXCEPT ![t] =
                         IF get(DETECTED).some
                         THEN [pc |-> "return", calls |-> @.calls,
                               ran |-> FALSE, value |-> get(DETECTED).value]
                         ELSE [pc |-> "closure", calls |-> @.calls]]
        /\ UNCHANGED <<DETECTED, returned>>
        /\ DetectFrame

\* the closure: cpu_aes::init() and token.get()
DetectProbe ==
    \E t \in Threads, token \in BOOLEAN :
        /\ thread[t].pc = "closure"
        /\ thread' = [thread EXCEPT ![t] =
                         [pc |-> "exchange", calls |-> @.calls, token |-> token]]
        /\ UNCHANGED <<DETECTED, returned>>
        /\ DetectFrame

\* what the exchange leaves: done is its outcome
DetectExchanged(t, done) ==
    /\ DETECTED' = done.DETECTED
    /\ thread' = [thread EXCEPT ![t] =
                     [pc |-> "return", calls |-> @.calls, ran |-> TRUE,
                      token |-> @.token, value |-> done.value]]

DetectExchange ==
    \E t \in Threads :
        /\ thread[t].pc = "exchange"
        /\ DetectExchanged(t, compare_exchange(DETECTED, thread[t].token))
        /\ UNCHANGED returned
        /\ DetectFrame

\* is_aes_detected returns
DetectReturn ==
    \E t \in Threads :
        /\ thread[t].pc = "return"
        /\ returned' = returned \cup {thread[t].value}
        /\ thread' = [thread EXCEPT ![t] = Outside(@.calls + 1)]
        /\ UNCHANGED DETECTED
        /\ DetectFrame

(***************************************************************************)
(* Core::update of src/hash/sha2/mod.rs computed in full.  A Word is the   *)
(* sequence of its 16-bit limbs, the most significant first: two limbs for *)
(* u32, four for u64.                                                      *)
(***************************************************************************)
\* the and of the low k bits of a and b
RECURSIVE and_bits(_, _, _)
and_bits(a, b, k) ==
    IF k = 0 THEN 0
    ELSE ((a % 2) * (b % 2)) + 2 * and_bits(a \div 2, b \div 2, k - 1)

\* and of two bytes, tabulated
AND8 ==
    Table([a \in 0 .. 255 |->
        Table([b \in 0 .. 255 |-> and_bits(a, b, 8)], 256)], 256)

\* the sequence of the n values of f, each computed once
Word(f, n) == SubSeq(f, 1, n)

\* x ^ y, x & y and !x on words
bitxor(x, y) ==
    Word([i \in 1 .. Len(x) |->
             256 * XOR8[(x[i] \div 256) + 1][(y[i] \div 256) + 1]
                 + XOR8[(x[i] % 256) + 1][(y[i] % 256) + 1]], Len(x))

bitand(x, y) ==
    Word([i \in 1 .. Len(x) |->
             256 * AND8[(x[i] \div 256) + 1][(y[i] \div 256) + 1]
                 + AND8[(x[i] % 256) + 1][(y[i] % 256) + 1]], Len(x))

not(x) == Word([i \in 1 .. Len(x) |-> 65535 - x[i]], Len(x))

\* limb j of x counted from the least significant, and the 16 bits that
\* start s bits up in the limb lo, running into the limb hi above it
limb(x, j) == x[Len(x) - j]

bits16(lo, hi, s) == (lo \div (2 ^ s)) + (hi % (2 ^ s)) * (2 ^ (16 - s))

\* x.rotate_right(n)
rotate_right(x, n) ==
    Word([i \in 1 .. Len(x) |->
             bits16(limb(x, (Len(x) - i + (n \div 16)) % Len(x)),
                    limb(x, (Len(x) - i + (n \div 16) + 1) % Len(x)),
                    n % 16)], Len(x))

\* x >> n
shr(x, n) ==
    Word([i \in 1 .. Len(x) |->
             bits16(IF Len(x) - i + (n \div 16) < Len(x)
                    THEN limb(x, Len(x) - i + (n \div 16)) ELSE 0,
                    IF Len(x) - i + (n \div 16) + 1 < Len(x)
                    THEN limb(x, Len(x) - i + (n \div 16) + 1) ELSE 0,
                    n % 16)], Len(x))

\* the sum of the limbs from i down with the carry into them, put before acc;
\* the carry out of the most significant limb is dropped
RECURSIVE add_limbs(_, _, _, _, _)
add_limbs(x, y, i, carry, acc) ==
    IF i = 0 THEN acc
    ELSE add_limbs(x, y, i - 1, (x[i] + y[i] + carry) \div 65536,
                   <<(x[i] + y[i] + carry) % 65536>> \o acc)

\* the sum r of two words with a limb for the carry before it, held at the
\* largest word when the carry is set
saturated(r) ==
    IF r[1] = 0 THEN Tail(r) ELSE Word([i \in 1 .. Len(r) - 1 |-> 65535], Len(r) - 1)

\* x.saturating_add(y)
saturating_add(x, y) ==
    saturated(add_limbs(<<0>> \o x, <<0>> \o y, Len(x) + 1, 0, <<>>))

\* (Wrapping(x) + Wrapping(y)).0
wrapping_add(x, y) == add_limbs(x, y, Len(x), 0, <<>>)

\* Sha2Functions::ch and maj
ch(x, y, z) == bitxor(bitand(x, y), bitand(not(x), z))

maj(x, y, z) == bitxor(bitxor(bitand(x, y), bitand(x, z)), bitand(y, z))

\* the rotations and the shift of the functions of Sha256Functions and
\* Sha512Functions
Sha256Functions ==
    [Sigma0 |-> <<2, 13, 22>>, Sigma1 |-> <<6, 11, 25>>,
     sigma0 |-> <<7, 18, 3>>, sigma1 |-> <<17, 19, 10>>]

Sha512Functions ==
    [Sigma0 |-> <<28, 34, 39>>, Sigma1 |-> <<14, 18, 41>>,
     sigma0 |-> <<1, 8, 7>>, sigma1 |-> <<19, 61, 6>>]

\* x.rotate_right(n[1]) ^ x.rotate_right(n[2]) ^ x.rotate_right(n[3])
Sigma(x, n) ==
    bitxor(bitxor(rotate_right(x, n[1]), rotate_right(x, n[2])),
           rotate_right(x, n[3]))

\* x.rotate_right(n[1]) ^ x.rotate_right(n[2]) ^ x >> n[3]
sigma(x, n) ==
    bitxor(bitxor(rotate_right(x, n[1]), rotate_right(x, n[2])), shr(x, n[3]))

Sha224Initializer ==
    <<<<\hc105, \h9ed8>>, <<\h367c, \hd507>>, <<\h3070, \hdd17>>, <<\hf70e, \h5939>>,
       <<\hffc0, \h0b31>>, <<\h6858, \h1511>>, <<\h64f9, \h8fa7>>, <<\hbefa, \h4fa4>> >>

Sha256Initializer ==
    <<<<\h6a09, \he667>>, <<\hbb67, \hae85>>, <<\h3c6e, \hf372>>, <<\ha54f, \hf53a>>,
       <<\h510e, \h527f>>, <<\h9b05, \h688c>>, <<\h1f83, \hd9ab>>, <<\h5be0, \hcd19>> >>

Sha384Initializer ==
    <<<<\hcbbb, \h9d5d, \hc105, \h9ed8>>, <<\h629a, \h292a, \h367c, \hd507>>,
       <<\h9159, \h015a, \h3070, \hdd17>>, <<\h152f, \hecd8, \hf70e, \h5939>>,
       <<\h6733, \h2667, \hffc0, \h0b31>>, <<\h8eb4, \h4a87, \h6858, \h1511>>,
       <<\hdb0c, \h2e0d, \h64f9, \h8fa7>>, <<\h47b5, \h481d, \hbefa, \h4fa4>> >>

Sha512Initializer ==
    <<<<\h6a09, \he667, \hf3bc, \hc908>>, <<\hbb67, \hae85, \h84ca, \ha73b>>,
       <<\h3c6e, \hf372, \hfe94, \hf82b>>, <<\ha54f, \hf53a, \h5f1d, \h36f1>>,
       <<\h510e, \h527f, \hade6, \h82d1>>, <<\h9b05, \h688c, \h2b3e, \h6c1f>>,
       <<\h1f83, \hd9ab, \hfb41, \hbd6b>>, <<\h5be0, \hcd19, \h137e, \h2179>> >>

Sha512_224Initializer ==
    <<<<\h8c3d, \h37c8, \h1954, \h4da2>>, <<\h73e1, \h9966, \h89dc, \hd4d6>>,
       <<\h1dfa, \hb7ae, \h32ff, \h9c82>>, <<\h679d, \hd514, \h582f, \h9fcf>>,
       <<\h0f6d, \h2b69, \h7bd4, \h4da8>>, <<\h77e3, \h6f73, \h04c4, \h8942>>,
       <<\h3f9d, \h85a8, \h6a1d, \h36c8>>, <<\h1112, \he6ad, \h91d6, \h92a1>> >>

Sha512_256Initializer ==
    <<<<\h2231, \h2194, \hfc2b, \hf72c>>, <<\h9f55, \h5fa3, \hc84c, \h64c2>>,
       <<\h2393, \hb86b, \h6f53, \hb151>>, <<\h9638, \h7719, \h5940, \heabd>>,
       <<\h9628, \h3ee2, \ha88e, \hffe3>>, <<\hbe5e, \h1e25, \h5386, \h3992>>,
       <<\h2b01, \h99fc, \h2c85, \hb8aa>>, <<\h0eb7, \h2ddc, \h81c5, \h2ca2>> >>

Sha256Constants ==
    <<<<\h428a, \h2f98>>, <<\h7137, \h4491>>, <<\hb5c0, \hfbcf>>, <<\he9b5, \hdba5>>,
       <<\h3956, \hc25b>>, <<\h59f1, \h11f1>>, <<\h923f, \h82a4>>, <<\hab1c, \h5ed5>>,
       <<\hd807, \haa98>>, <<\h1283, \h5b01>>, <<\h2431, \h85be>>, <<\h550c, \h7dc3>>,
       <<\h72be, \h5d74>>, <<\h80de, \hb1fe>>, <<\h9bdc, \h06a7>>, <<\hc19b, \hf174>>,
       <<\he49b, \h69c1>>, <<\hefbe, \h4786>>, <<\h0fc1, \h9dc6>>, <<\h240c, \ha1cc>>,
       <<\h2de9, \h2c6f>>, <<\h4a74, \h84aa>>, <<\h5cb0, \ha9dc>>, <<\h76f9, \h88da>>,
       <<\h983e, \h5152>>, <<\ha831, \hc66d>>, <<\hb003, \h27c8>>, <<\hbf59, \h7fc7>>,
       <<\hc6e0, \h0bf3>>, <<\hd5a7, \h9147>>, <<\h06ca, \h6351>>, <<\h1429, \h2967>>,
       <<\h27b7, \h0a85>>, <<\h2e1b, \h2138>>, <<\h4d2c, \h6dfc>>, <<\h5338, \h0d13>>,
       <<\h650a, \h7354>>, <<\h766a, \h0abb>>, <<\h81c2, \hc92e>>, <<\h9272, \h2c85>>,
       <<\ha2bf, \he8a1>>, <<\ha81a, \h664b>>, <<\hc24b, \h8b70>>, <<\hc76c, \h51a3>>,
       <<\hd192, \he819>>, <<\hd699, \h0624>>, <<\hf40e, \h3585>>, <<\h106a, \ha070>>,
       <<\h19a4, \hc116>>, <<\h1e37, \h6c08>>, <<\h2748, \h774c>>, <<\h34b0, \hbcb5>>,
       <<\h391c, \h0cb3>>, <<\h4ed8, \haa4a>>, <<\h5b9c, \hca4f>>, <<\h682e, \h6ff3>>,
       <<\h748f, \h82ee>>, <<\h78a5, \h636f>>, <<\h84c8, \h7814>>, <<\h8cc7, \h0208>>,
       <<\h90be, \hfffa>>, <<\ha450, \h6ceb>>, <<\hbef9, \ha3f7>>, <<\hc671, \h78f2>> >>

Sha512Constants ==
    <<<<\h428a, \h2f98, \hd728, \hae22>>, <<\h7137, \h4491, \h23ef, \h65cd>>,
       <<\hb5c0, \hfbcf, \hec4d, \h3b2f>>, <<\he9b5, \hdba5, \h8189, \hdbbc>>,
       <<\h3956, \hc25b, \hf348, \hb538>>, <<\h59f1, \h11f1, \hb605, \hd019>>,
       <<\h923f, \h82a4, \haf19, \h4f9b>>, <<\hab1c, \h5ed5, \hda6d, \h8118>>,
       <<\hd807, \haa98, \ha303, \h0242>>, <<\h1283, \h5b01, \h4570, \h6fbe>>,
       <<\h2431, \h85be, \h4ee4, \hb28c>>, <<\h550c, \h7dc3, \hd5ff, \hb4e2>>,
       <<\h72be, \h5d74, \hf27b, \h896f>>, <<\h80de, \hb1fe, \h3b16, \h96b1>>,
       <<\h9bdc, \h06a7, \h25c7, \h1235>>, <<\hc19b, \hf174, \hcf69, \h2694>>,
       <<\he49b, \h69c1, \h9ef1, \h4ad2>>, <<\hefbe, \h4786, \h384f, \h25e3>>,
       <<\h0fc1, \h9dc6, \h8b8c, \hd5b5>>, <<\h240c, \ha1cc, \h77ac, \h9c65>>,
       <<\h2de9, \h2c6f, \h592b, \h0275>>, <<\h4a74, \h84aa, \h6ea6, \he483>>,
       <<\h5cb0, \ha9dc, \hbd41, \hfbd4>>, <<\h76f9, \h88da, \h8311, \h53b5>>,
       <<\h983e, \h5152, \hee66, \hdfab>>, <<\ha831, \hc66d, \h2db4, \h3210>>,
       <<\hb003, \h27c8, \h98fb, \h213f>>, <<\hbf59, \h7fc7, \hbeef, \h0ee4>>,
       <<\hc6e0, \h0bf3, \h3da8, \h8fc2>>, <<\hd5a7, \h9147, \h930a, \ha725>>,
       <<\h06ca, \h6351, \he003, \h826f>>, <<\h1429, \h2967, \h0a0e, \h6e70>>,
       <<\h27b7, \h0a85, \h46d2, \h2ffc>>, <<\h2e1b, \h2138, \h5c26, \hc926>>,
       <<\h4d2c, \h6dfc, \h5ac4, \h2aed>>, <<\h5338, \h0d13, \h9d95, \hb3df>>,
       <<\h650a, \h7354, \h8baf, \h63de>>, <<\h766a, \h0abb, \h3c77, \hb2a8>>,
       <<\h81c2, \hc92e, \h47ed, \haee6>>, <<\h9272, \h2c85, \h1482, \h353b>>,
       <<\ha2bf, \he8a1, \h4cf1, \h0364>>, <<\ha81a, \h664b, \hbc42, \h3001>>,
       <<\hc24b, \h8b70, \hd0f8, \h9791>>, <<\hc76c, \h51a3, \h0654, \hbe30>>,
       <<\hd192, \he819, \hd6ef, \h5218>>, <<\hd699, \h0624, \h5565, \ha910>>,
       <<\hf40e, \h3585, \h5771, \h202a>>, <<\h106a, \ha070, \h32bb, \hd1b8>>,
       <<\h19a4, \hc116, \hb8d2, \hd0c8>>, <<\h1e37, \h6c08, \h5141, \hab53>>,
       <<\h2748, \h774c, \hdf8e, \heb99>>, <<\h34b0, \hbcb5, \he19b, \h48a8>>,
       <<\h391c, \h0cb3, \hc5c9, \h5a63>>, <<\h4ed8, \haa4a, \he341, \h8acb>>,
       <<\h5b9c, \hca4f, \h7763, \he373>>, <<\h682e, \h6ff3, \hd6b2, \hb8a3>>,
       <<\h748f, \h82ee, \h5def, \hb2fc>>, <<\h78a5, \h636f, \h4317, \h2f60>>,
       <<\h84c8, \h7814, \ha1f0, \hab72>>, <<\h8cc7, \h0208, \h1a64, \h39ec>>,
       <<\h90be, \hfffa, \h2363, \h1e28>>, <<\ha450, \h6ceb, \hde82, \hbde9>>,
       <<\hbef9, \ha3f7, \hb2c6, \h7915>>, <<\hc671, \h78f2, \he372, \h532b>>,
       <<\hca27, \h3ece, \hea26, \h619c>>, <<\hd186, \hb8c7, \h21c0, \hc207>>,
       <<\heada, \h7dd6, \hcde0, \heb1e>>, <<\hf57d, \h4f7f, \hee6e, \hd178>>,
       <<\h06f0, \h67aa, \h7217, \h6fba>>, <<\h0a63, \h7dc5, \ha2c8, \h98a6>>,
       <<\h113f, \h9804, \hbef9, \h0dae>>, <<\h1b71, \h0b35, \h131c, \h471b>>,
       <<\h28db, \h77f5, \h2304, \h7d84>>, <<\h32ca, \hab7b, \h40c7, \h2493>>,
       <<\h3c9e, \hbe0a, \h15c9, \hbebc>>, <<\h431d, \h67c4, \h9c10, \h0d4c>>,
       <<\h4cc5, \hd4be, \hcb3e, \h42b6>>, <<\h597f, \h299c, \hfc65, \h7e2a>>,
       <<\h5fcb, \h6fab, \h3ad6, \hfaec>>, <<\h6c44, \h198c, \h4a47, \h5817>> >>

\* Sha256Core and Sha512Core: the Word's size in bytes, Functions, Constants,
\* BLOCK_SIZE and ROUNDS
Sha256Core ==
    [size |-> 4, Functions |-> Sha256Functions, K |-> Sha256Constants,
     BLOCK_SIZE |-> 64, ROUNDS |-> 64]

Sha512Core ==
    [size |-> 8, Functions |-> Sha512Functions, K |-> Sha512Constants,
     BLOCK_SIZE |-> 128, ROUNDS |-> 80]

\* entry t of an array, counted from 0
at(w, t) == w[t + 1]

\* Word::from_be(read_unaligned(src)): the word whose bytes, the most
\* significant first, are those at src
from_be(bytes) ==
    Word([i \in 1 .. Len(bytes) \div 2 |-> 256 * bytes[2 * i - 1] + bytes[2 * i]],
         Len(bytes) \div 2)

\* the first loop of update: w[t] for t in 0..n, n = BLOCK_SIZE / size
block_words(C, block) ==
    Word([t \in 1 .. C.BLOCK_SIZE \div C.size |->
             from_be(SubSeq(block, C.size * (t - 1) + 1, C.size * t))],
         C.BLOCK_SIZE \div C.size)

\* the second loop: w[t] for t in n..ROUNDS, t being Len(w)
RECURSIVE schedule(_, _)
schedule(C, w) ==
    IF Len(w) >= C.ROUNDS THEN w
    ELSE schedule(C,
             Append(w,
                 wrapping_add(
                     wrapping_add(
                         wrapping_add(sigma(at(w, Len(w) - 2), C.Functions.sigma1),
                                      at(w, Len(w) - 7)),
                         sigma(at(w, Len(w) - 15), C.Functions.sigma0)),
                     at(w, Len(w) - 16))))

\* t1 and t2 of a round on the working variables v = <<a, .., h>>
t1(C, v, Kt, wt) ==
    wrapping_add(
        wrapping_add(
            wrapping_add(wrapping_add(v[8], Sigma(v[5], C.Functions.Sigma1)),
                         ch(v[5], v[6], v[7])),
            Kt),
        wt)

t2(C, v) == wrapping_add(Sigma(v[1], C.Functions.Sigma0), maj(v[1], v[2], v[3]))

\* the assignments that end a round
rotated(v, T1, T2) ==
    <<wrapping_add(T1, T2), v[1], v[2], v[3],
      wrapping_add(v[4], T1), v[5], v[6], v[7]>>

\* the third loop: rounds t .. ROUNDS - 1
RECURSIVE rounds(_, _, _, _)
rounds(C, w, v, t) ==
    IF t < C.ROUNDS /\ Len(v) = 8
    THEN rounds(C, w, rotated(v, t1(C, v, at(C.K, t), at(w, t)), t2(C, v)),
                t + 1)
    ELSE v

\* self.h[i] = (Wrapping(self.h[i]) + Wrapping(v[i])).0
add_state(h, v) == Word([i \in 1 .. 8 |-> wrapping_add(h[i], v[i])], 8)

\* the schedule of a block, and Core::update: the state words it leaves
Core_schedule(C, block) == schedule(C, block_words(C, block))

Sha2Core_update(C, h, block) ==
    add_state(h, rounds(C, Core_schedule(C, block), h, 0))

(***************************************************************************)
(* The Core on its own: new, reset and update on whole blocks.             *)
(***************************************************************************)
\* the six instantiations of Sha2Variant: the Core and the Initializer
Sha2Variants ==
    [Sha224 |-> [core |-> Sha256Core, h |-> Sha224Initializer],
     Sha256 |-> [core |-> Sha256Core, h |-> Sha256Initializer],
     Sha384 |-> [core |-> Sha512Core, h |-> Sha384Initializer],
     Sha512 |-> [core |-> Sha512Core, h |-> Sha512Initializer],
     Sha512_224 |-> [core |-> Sha512Core, h |-> Sha512_224Initializer],
     Sha512_256 |-> [core |-> Sha512Core, h |-> Sha512_256Initializer]]

\* the block that pads a message shorter than a block less the length field
OneBlock(msg, n) ==
    Word(msg \o <<128>> \o [i \in 1 .. n - Len(msg) - 2 |-> 0] \o <<8 * Len(msg)>>,
         n)

\* the blocks update is given: the padded empty message, the padded "abc",
\* 255 throughout, and a run that wraps around the byte
CoreBlocks(n) ==
    {OneBlock(<<>>, n), OneBlock(<<97, 98, 99>>, n),
     Word([i \in 1 .. n |-> 255], n), Word([i \in 1 .. n |-> (37 * i + 11) % 256], n)}

\* Core::new(h) and Core::reset(h): the state words are h
Sha2Core_new(variant) == [variant |-> variant, h |-> Sha2Variants[variant].h]

Sha2Core_reset(self, h) == [self EXCEPT !.h = h]

CoreInit ==
    /\ sha = Sha2Core_new("Sha256")
    /\ shacall = [fn |-> "new", n |-> 0]

CoreFrame ==
    UNCHANGED <<bufvars, hashvars, lookupvars, aesvars, detectvars, macvars>>

CoreNew ==
    \E variant \in DOMAIN Sha2Variants :
        /\ sha' = Sha2Core_new(variant)
        /\ shacall' = [fn |-> "new", n |-> 0]
        /\ CoreFrame

CoreReset ==
    /\ sha' = Sha2Core_reset(sha, Sha2Variants[sha.variant].h)
    /\ shacall' = [fn |-> "reset", n |-> 0]
    /\ CoreFrame

\* update(block): w is the schedule of the block and v the working variables
\* after the rounds
CoreUpdated(C, block, w, v) ==
    /\ sha' = [sha EXCEPT !.h = add_state(sha.h, v)]
    /\ shacall' = [fn |-> "update", n |-> shacall.n + 1, block |-> block,
                   h |-> sha.h, w |-> w, v |-> v]

CoreUpdateWith(C, block, w) == CoreUpdated(C, block, w, rounds(C, w, sha.h, 0))

CoreUpdate ==
    /\ shacall.n < MaxCompress
    /\ \E block \in CoreBlocks(Sha2Variants[sha.variant].core.BLOCK_SIZE) :
           CoreUpdateWith(Sha2Variants[sha.variant].core, block,
                          Core_schedule(Sha2Variants[sha.variant].core, block))
    /\ CoreFrame

(***************************************************************************)
(* Hmac<H> (src/mac/hmac/mod.rs) over H = the Sha2Variant above.  A digest *)
(* is a function of the blocks compressed: its bytes are kept as that      *)
(* function's value and the place in it.                                   *)
(***************************************************************************)
\* &digest[..DIGEST_SIZE]: the bytes finalize returns
digest_bytes(d) == [i \in 1 .. DIGEST_SIZE |-> [digest |-> d, at |-> i]]

\* Hash::new_with_prefix
new_with_prefix(data, checked) == Sha2Variant_update(Sha2Variant_new, data, checked)

\* block[i] ^= pad for every i; the first n bytes of the block are bytes of a
\* digest and the others are numbers
xor_pad(block, n, pad) ==
    [i \in 1 .. Len(block) |->
        IF i <= n THEN [byte |-> block[i], xor |-> pad] ELSE xor(block[i], pad)]

\* the key block: the key, or the digest of a key longer than a block, and
\* zeros up to block_size
key_block(key, checked) ==
    IF Len(key) <= BLOCK_SIZE
    THEN key \o [i \in 1 .. BLOCK_SIZE - Len(key) |-> 0]
    ELSE digest_bytes(
             Sha2Variant_finalize(new_with_prefix(key, checked), checked).digest)
         \o [i \in 1 .. BLOCK_SIZE - DIGEST_SIZE |-> 0]

\* the inner and the outer hash, each fed its padded key
keyed_pair(block, n, checked) ==
    <<new_with_prefix(xor_pad(block, n, 54), checked),
      new_with_prefix(xor_pad(block, n, 92), checked)>>

Hmac_keyed_hashes(key, checked) ==
    keyed_pair(key_block(key, checked),
          IF Len(key) <= BLOCK_SIZE THEN 0 ELSE DIGEST_SIZE, checked)

\* the instance whose initial state is initial_state
Hmac_from(initial_state) ==
    [initial_state |-> initial_state,
     inner_hash |-> initial_state[1],
     outer_hash |-> initial_state[2]]

Hmac_new(key, checked) == Hmac_from(Hmac_keyed_hashes(key, checked))

Hmac_rekey(self, key, checked) == Hmac_from(Hmac_keyed_hashes(key, checked))

\* Hmac_reset that leaves the outer hash as it is
Hmac_reset_inner(self) == [self EXCEPT !.inner_hash = self.initial_state[1]]

Hmac_reset(self) ==
    [self EXCEPT !.inner_hash = self.initial_state[1],
                 !.outer_hash = self.initial_state[2]]

Hmac_update(self, data, checked) ==
    [self EXCEPT !.inner_hash = Sha2Variant_update(@, data, checked)]

\* the outer hash finalized after it was given the digest of the inner hash
Hmac_finalized(self, inner, outer) ==
    [self |-> [self EXCEPT !.inner_hash = inner.self, !.outer_hash = outer.self],
     tag |-> digest_bytes(outer.digest),
     panic |-> inner.self.panic \/ outer.self.panic]

Hmac_outer(self, inner, checked) ==
    Hmac_finalized(self, inner,
        Sha2Variant_finalize(
            Sha2Variant_update(self.outer_hash, digest_bytes(inner.digest), checked),
            checked))

Hmac_finalize(self, checked) ==
    Hmac_outer(self, Sha2Variant_finalize(self.inner_hash, checked), checked)

(***************************************************************************)
(* The MAC machine: a caller of one Hmac instance.                         *)
(***************************************************************************)
\* the keys: empty, shorter than a block, a block, and longer than a block
MacKeys ==
    {<<>>, <<54>>, [i \in 1 .. BLOCK_SIZE |-> i], [i \in 1 .. BLOCK_SIZE + 1 |-> 92]}

\* where the instance stands: the key of the latest new or rekey, the bytes
\* passed to update since the latest new, rekey or reset, whether finalize was
\* called since, what the last finalize returned, and whether the instance had
\* been used when it was last reset or rekeyed
Keyed(key, by, used) ==
    [key |-> key, message |-> <<>>, phase |-> "ready", by |-> by, used |-> used,
     tag |-> <<>>, panic |-> FALSE]

Used == macs.message # <<>> \/ macs.phase # "ready"

MacInit ==
    /\ mac = Hmac_new(<<>>, FALSE)
    /\ macs = Keyed(<<>>, "new", FALSE)

MacFrame ==
    UNCHANGED <<bufvars, hashvars, lookupvars, aesvars, detectvars, corevars>>

MacNew ==
    /\ \E key \in MacKeys, checked \in BOOLEAN :
          /\ mac' = Hmac_new(key, checked)
          /\ macs' = Keyed(key, "new", FALSE)
    /\ MacFrame

MacRekey ==
    /\ \E key \in MacKeys, checked \in BOOLEAN :
          /\ mac' = Hmac_rekey(mac, key, checked)
          /\ macs' = Keyed(key, "rekey", Used)
    /\ MacFrame

MacReset ==
    /\ mac' = Hmac_reset(mac)
    /\ macs' = Keyed(macs.key, "reset", Used)
    /\ MacFrame

\* after a finalize one more update is followed
MacUpdate ==
    /\ macs.phase \in {"ready", "finalized"}
    /\ \E data \in SeqUpTo(Byte, MaxMacMessage), checked \in BOOLEAN :
          /\ Len(macs.message) + Len(data) <= MaxMacMessage
          /\ mac' = Hmac_update(mac, data, checked)
          /\ macs' = [macs EXCEPT !.message = @ \o data,
                                  !.phase = IF @ = "ready" THEN "ready" ELSE "reused"]
    /\ MacFrame

MacFinalized(done) ==
    /\ mac' = done.self
    /\ macs' = [macs EXCEPT !.tag = done.tag,
                            !.panic = done.panic,
                            !.phase = IF @ = "ready" THEN "finalized"
                                      ELSE "refinalized"]

MacFinalize ==
    /\ macs.phase \in {"ready", "finalized", "reused"}
    /\ \E checked \in BOOLEAN : MacFinalized(Hmac_finalize(mac, checked))
    /\ MacFrame

(***************************************************************************)
(* Specifications                                                          *)
(***************************************************************************)
Init ==
    BufInit /\ HashInit /\ LookupInit /\ AesInit /\ DetectInit /\ CoreInit
        /\ MacInit

Next ==
    \/ New
    \/ Push
    \/ Pop
    \/ Fill
    \/ ExtendFromSlice
    \/ Truncate
    \/ Clear
    \/ Blocks
    \/ BlocksNext
    \/ Drop
    \/ Release

Spec == Init /\ [][Next]_vars

NextHash ==
    \/ Update
    \/ Finalize
    \/ Reset

SpecHash == Init /\ [][NextHash]_vars

NextLength ==
    \/ UpdateRun
    \/ Finalize
    \/ Reset

SpecLength == Init /\ [][NextLength]_vars

NextLookup ==
    \/ Algorithms
    \/ FromString
    \/ List
    \/ FromName
    \/ Taken

SpecLookup == Init /\ [][NextLookup]_vars

NextAes ==
    \/ AesNew
    \/ AesRekey
    \/ EncryptBlocks
    \/ DecryptBlocks
    \/ AesTaken

SpecAes == Init /\ [][NextAes]_vars

NextDetect ==
    \/ DetectLoad
    \/ DetectProbe
    \/ DetectExchange
    \/ DetectReturn

SpecDetect == Init /\ [][NextDetect]_vars

NextCore ==
    \/ CoreNew
    \/ CoreReset
    \/ CoreUpdate

SpecCore == Init /\ [][NextCore]_vars

NextMac ==
    \/ MacNew
    \/ MacRekey
    \/ MacReset
    \/ MacUpdate
    \/ MacFinalize

SpecMac == Init /\ [][NextMac]_vars

(***************************************************************************)
(* Properties of the chunk buffer (Spec)                                   *)
(***************************************************************************)
RECURSIVE Flatten(_)
Flatten(blocks) ==
    IF blocks = <<>> THEN <<>> ELSE Head(blocks) \o Flatten(Tail(blocks))

Data(views) == [i \in 1 .. Len(views) |-> views[i].data]

\* what the blocks() call was given: the buffered values, then the input
Stream == call.buffer \o call.values

\* the values after the last full block of a sequence
Leftover(s) == SubSeq(s, Len(s) - (Len(s) % N) + 1, Len(s))

\* every block of the call, in the order the iterator hands them out
AllBlocks == yielded \o first \o following

\* the call found the buffer within its capacity
CallInCapacity == call.length = Len(call.buffer)

FullyIterated == iter = "dropped" /\ first = <<>> /\ following = <<>>

\* C2: with k < N values buffered and len values of input, a fully iterated
\* blocks() call yields floor((k + len) / N) blocks of N values each and leaves
\* (k + len) mod N values in the buffer.
C2_BlockCount ==
    (FullyIterated /\ call.length < N) =>
        /\ ~buf.panic
        /\ Len(yielded) = (call.length + Len(call.values)) \div N
        /\ \A i \in 1 .. Len(yielded) : Len(yielded[i].data) = N
        /\ buf.length = (call.length + Len(call.values)) % N
        /\ Len(buf.buffer) = buf.length

C2_Witness ==
    /\ FullyIterated
    /\ call.length = N - 1
    /\ Len(call.values) = N + 2
    /\ Len(yielded) = 2
    /\ buf.length = 1

\* C3: after any sequence of public Buffer operations the length is at most
\* the capacity N.
C3_LengthWithinCapacity == buf.length <= N

\* C4: whenever the iterator is dropped, after all of its blocks or after any
\* fewer, the buffer holds the values after the last full block of the
\* stream, and only those if the first block was the filled buffer.
C4_FlushOnDrop ==
    (iter = "dropped" /\ CallInCapacity) =>
        /\ ~buf.panic
        /\ buf.length = Len(buf.buffer)
        /\ buf.buffer = Leftover(Stream)
        /\ (AllBlocks # <<>> /\ AllBlocks[1].src = "buffer") => buf.buffer = remainder

C4_Witness ==
    /\ iter = "dropped"
    /\ yielded = <<>>
    /\ first # <<>>
    /\ following # <<>>
    /\ remainder # <<>>
    /\ buf.buffer = remainder

\* C5 as claimed: once the iterator is dropped, every value of the buffer and
\* of the input has been yielded in a block or is in the buffer.
C5_NoDataLoss ==
    (iter = "dropped" /\ CallInCapacity) =>
        Flatten(Data(yielded)) \o buf.buffer = Stream

\* C5 as amended: once the iterator is dropped, every value has been yielded
\* in a block, or was in a block the iterator had not yet yielded (those are
\* discarded), or is in the buffer; nothing is lost when every block was
\* taken.
C5_NoLossBeyondUnyielded ==
    (iter = "dropped" /\ CallInCapacity) =>
        /\ Flatten(Data(yielded)) \o Flatten(Data(first \o following)) \o buf.buffer
              = Stream
        /\ FullyIterated => Flatten(Data(yielded)) \o buf.buffer = Stream

C5_Witness ==
    /\ iter = "dropped"
    /\ call.length > 0
    /\ Len(yielded) = 1
    /\ following # <<>>
    /\ buf.buffer # <<>>

\* C6: an input shorter than the room left in the buffer produces no block
\* and is appended to the buffered values; an empty input leaves a buffer
\* that is not full unchanged.
C6_ShortInput ==
    (iter # "none" /\ CallInCapacity /\ Len(call.values) < N - call.length) =>
        /\ AllBlocks = <<>>
        /\ ~buf.panic
        /\ iter = "dropped" =>
              /\ buf.buffer = call.buffer \o call.values
              /\ buf.length = call.length + Len(call.values)

C6_Witness ==
    /\ iter = "dropped"
    /\ call.length = 1
    /\ Len(call.values) = 2
    /\ buf.length = 3

\* C7: with k > 0 values buffered and at least N - k values of input the
\* first block is the buffered values followed by the first N - k input
\* values and the further blocks are the consecutive N-slices of the rest of
\* the input; with an empty buffer the blocks are the consecutive N-slices of
\* the input.  They are handed out in that order.
C7_BlockContents ==
    (iter # "none" /\ CallInCapacity) =>
        LET k == call.length
            len == Len(call.values)
            all == AllBlocks
        IN  /\ (k > 0 /\ len >= N - k) =>
                /\ Len(all) = 1 + (len - (N - k)) \div N
                /\ all[1].data = call.buffer \o SubSeq(call.values, 1, N - k)
                /\ \A i \in 2 .. Len(all) :
                     all[i].data = SubSeq(call.values, (N - k) + (i - 2) * N + 1,
                                          (N - k) + (i - 1) * N)
            /\ k = 0 =>
                /\ Len(all) = len \div N
                /\ \A i \in 1 .. Len(all) :
                     all[i].data = SubSeq(call.values, (i - 1) * N + 1, i * N)

C7_Witness ==
    /\ iter = "live"
    /\ call.length > 0
    /\ Len(yielded) = 2
    /\ yielded[1].src = "buffer"
    /\ yielded[1].data # yielded[2].data

\* C8: a call copies at most min(len, N - k) values into the buffer when the
\* iterator is created and at most N - 1 when it is dropped; with an empty
\* buffer and an input of a multiple of N values nothing is copied and every
\* block is a view of the input.
C8_CopyBound ==
    (iter # "none" /\ CallInCapacity) =>
        /\ copied.new <= Min(Len(call.values), N - call.length)
        /\ copied.drop <= N - 1
        /\ (call.length = 0 /\ Len(call.values) % N = 0) =>
              /\ copied = NoCopy
              /\ \A i \in 1 .. Len(AllBlocks) :
                    /\ AllBlocks[i].src = "values"
                    /\ AllBlocks[i].off = (i - 1) * N

C8_Witness ==
    /\ FullyIterated
    /\ call.length = 0
    /\ Len(call.values) = N
    /\ Len(yielded) = 1
    /\ yielded[1].src = "values"
    /\ copied = NoCopy

(***************************************************************************)
(* Properties of the SHA-2 variant wrapper (SpecHash)                      *)
(***************************************************************************)
Zeros(n) == [i \in 1 .. n |-> 0]

\* the bytes of a Length value, big endian
BigEndian(x) ==
    [i \in 1 .. LengthSize |-> (x \div (256 ^ (LengthSize - i))) % 256]

BitLength(bytes) == (8 * bytes) % LengthModulus

\* a fresh instance given the whole message in one update
OneShot == Sha2Variant_update(Sha2Variant_new, message, FALSE)

\* C1: however the message was split into update calls, on a fresh or reset
\* instance, the core has compressed the blocks a single update of the whole
\* message would have made it compress, and finalize returns the same digest.
C1_StreamingEquivalence ==
    /\ ~hash.panic
    /\ hphase = "ready" =>
          /\ hash.core = OneShot.core
          /\ hash.buffer = OneShot.buffer
          /\ hash.length = OneShot.length
    /\ hphase = "finalized" => digest = Sha2Variant_finalize(OneShot, FALSE).digest

C1_Witness ==
    /\ hphase = "finalized"
    /\ Len(pieces) = 3
    /\ pieces[1] % BLOCK_SIZE # 0
    /\ pieces[2] = 0
    /\ Len(message) > BLOCK_SIZE
    /\ Len(digest) >= 2

\* C9: for a message of L bytes finalize has the core compress
\* M || 0x80 || 0x00* || BE(8 * L), of the least multiple of BLOCK_SIZE that is
\* at least L + 1 + size_of::<Length>() bytes, in blocks of BLOCK_SIZE.
C9_Padding ==
    hphase = "finalized" =>
        LET L == Len(message)
            blocks == (L + 1 + LengthSize + BLOCK_SIZE - 1) \div BLOCK_SIZE
            total == blocks * BLOCK_SIZE
        IN  /\ ~hash.panic
            /\ Len(digest) = blocks
            /\ \A i \in 1 .. blocks : Len(digest[i]) = BLOCK_SIZE
            /\ Flatten(digest)
                  = message \o <<PadByte>> \o Zeros(total - L - 1 - LengthSize)
                            \o BigEndian(BitLength(L))
            /\ SubSeq(digest[blocks], BLOCK_SIZE - LengthSize + 1, BLOCK_SIZE)
                  = BigEndian(BitLength(L))

C9_Witness ==
    /\ hphase = "finalized"
    /\ Len(message) > BLOCK_SIZE
    /\ Len(digest) = 2
    /\ digest[2][BLOCK_SIZE] = 8 * Len(message)

\* C10: finalize with exactly size_of::<Length>() bytes free in the current
\* block compresses two blocks, the current one completed with 0x80 and
\* zeros, then zeros and the bit length; with one more byte free it
\* compresses one block.
C10_PaddingBoundary ==
    [][(hphase = "ready" /\ hphase' = "finalized") =>
          LET free == BLOCK_SIZE - Len(hash.buffer)
              field == BigEndian(BitLength(hash.length))
          IN  /\ free = LengthSize =>
                    digest' = hash.core \o
                        << hash.buffer \o <<PadByte>> \o Zeros(LengthSize - 1),
                           Zeros(BLOCK_SIZE - LengthSize) \o field >>
              /\ free = LengthSize + 1 =>
                    digest' = hash.core \o
                        << hash.buffer \o <<PadByte>> \o field >>]_vars

C10_Witness ==
    /\ hphase = "finalized"
    /\ Len(message) % BLOCK_SIZE = BLOCK_SIZE - LengthSize
    /\ Len(digest) = Len(message) \div BLOCK_SIZE + 2
    /\ digest[Len(digest)][BLOCK_SIZE] = 8 * Len(message)

(***************************************************************************)
(* Properties of the length counter (SpecLength)                           *)
(***************************************************************************)
\* the last size_of::<Length>() bytes of the last block the digest is made of
LengthField ==
    SubSeq(digest[Len(digest)], BLOCK_SIZE - LengthSize + 1, BLOCK_SIZE)

\* C11: no update or finalize panics, whatever the total passed to update,
\* and the length field finalize writes is 8 times the number of bytes passed
\* to update since new/reset, modulo 2^W, W the width of Length in bits.
C11_LengthModulo ==
    /\ ~hash.panic
    /\ hphase = "finalized" => LengthField = BigEndian(BitLength(Len(message)))

\* the full blocks of a byte sequence, in order
Chunks(bytes) ==
    [i \in 1 .. Len(bytes) \div BLOCK_SIZE |->
        SubSeq(bytes, (i - 1) * BLOCK_SIZE + 1, i * BLOCK_SIZE)]

\* C12: an update(data) call adds 8 * len(data) to the bit length pad will
\* write (self.length << 3), and has the core compress, once each and in
\* order, the full blocks of the buffered bytes followed by data, which are
\* the blocks the chunk buffer emits for the call.
C12_UpdateStep ==
    [][Len(pieces') = Len(pieces) + 1 =>
          LET data == SubSeq(message', Len(message) + 1, Len(message'))
              emitted == Chunks(hash.buffer \o data)
          IN  /\ ~hash'.panic
              /\ Len(data) = pieces'[Len(pieces')]
              /\ BitLength(hash'.length)
                    = (BitLength(hash.length) + 8 * Len(data)) % LengthModulus
              /\ 8 * hash'.length = 8 * hash.length + 8 * Len(data)
              /\ hash'.core = hash.core \o emitted
              /\ Len(hash'.core) - Len(hash.core)
                    = (Len(hash.buffer) + Len(data)) \div BLOCK_SIZE]_vars

C12_Witness ==
    /\ hphase = "ready"
    /\ pieces = <<3, 5>>
    /\ Len(hash.core) = 2
    /\ hash.length = 8
    /\ hash.buffer = <<>>

(***************************************************************************)
(* Properties of reset and of reuse after finalize (SpecHash)              *)
(***************************************************************************)
\* the digest of a fresh instance given m in one update
Fresh(m) ==
    Sha2Variant_finalize(Sha2Variant_update(Sha2Variant_new, m, FALSE), FALSE).digest

\* the bytes passed to update after the first finalize
SinceFinalize == SubSeq(message, mark + 1, Len(message))

\* C13: right after new or reset, whatever came before, the instance is in the
\* state of new(); the first finalize after it returns the digest a fresh
\* instance returns for the same bytes; an instance that was finalized and
\* not reset is not in the state of new(), and finalizing it again after
\* more updates does not return the digest of a fresh instance given them.
C13_ResetRestoresNew ==
    /\ ~hash.panic
    /\ (hphase = "ready" /\ pieces = <<>>) => hash = Sha2Variant_new
    /\ hphase = "finalized" => digest = Fresh(message)
    /\ hphase \in {"finalized", "reused", "refinalized"} =>
          /\ hash.core # Sha2Variant_new.core
          /\ hash.length # Sha2Variant_new.length
    /\ hphase = "refinalized" => digest # Fresh(SinceFinalize)

C13_Witness ==
    /\ recycled
    /\ hphase = "ready"
    /\ pieces = <<>>
    /\ hash.length = 0

\* C30: between the operations of a hash instance the chunk buffer holds fewer
\* than BLOCK_SIZE bytes: pad writes its 0x80 inside the block, an iterator
\* made for the next update finds the buffer full at its drop exactly when its
\* first block was the buffer, and after finalize the buffer is empty.
C30_ChunkBuffer ==
    /\ ~hash.panic
    /\ Len(hash.buffer) < BLOCK_SIZE
    /\ ~Sha2Variant_pad(hash, FALSE).panic
    /\ \A n \in 0 .. MaxPiece :
           /\ ~block_Blocks_new(hash.buffer, Run(n)).panic
           /\ Len(block_Blocks_new(hash.buffer, Run(n)).buffer) = BLOCK_SIZE
                  <=> block_Blocks_new(hash.buffer, Run(n)).first # <<>>
    /\ hphase \in {"finalized", "refinalized"} => hash.buffer = <<>>

\* the second of two updates filled the buffer the first had left and left
\* it one byte short of full again, and the finalize that followed had to pad
\* into a second block
C30_Witness ==
    /\ hphase = "finalized"
    /\ pieces = <<BLOCK_SIZE - 1, BLOCK_SIZE>>
    /\ mark = 2 * BLOCK_SIZE - 1
    /\ Len(hash.core) >= 3
    /\ hash.buffer = <<>>

(***************************************************************************)
(* Properties of name lookup (SpecLookup)                                  *)
(***************************************************************************)
\* the entries of a table under a name, found by looking at every entry
Entries(table, name) == {i \in 1 .. Len(table) : table[i].name = name}

\* C14: from_string and from_name return the instance of the entry of that
\* name for every name their listing function produces, and for every other
\* name an UnknownAlgorithmError that carries exactly the name asked for.
C14_NameLookup ==
    /\ asked.fn = "from_string" =>
          IF \E i \in 1 .. Len(algorithms) : algorithms[i] = asked.name
          THEN /\ answer.ok
               /\ \E i \in Entries(ALGORITHMS, asked.name) :
                     answer.instance = [make |-> ALGORITHMS[i].make]
          ELSE /\ ~answer.ok
               /\ answer.err = [error |-> "UnknownAlgorithmError",
                                name |-> asked.name]
    /\ asked.fn = "from_name" =>
          IF \E i \in 1 .. Len(list) : list[i] = asked.name
          THEN /\ answer.ok
               /\ \E i \in Entries(MACS, asked.name) :
                     answer.instance = [make |-> MACS[i].make, k |-> asked.key]
          ELSE /\ ~answer.ok
               /\ answer.err = [error |-> "UnknownAlgorithmError",
                                name |-> asked.name]

\* from_name("hmac-sha512/256", k) found the last entry of the table
C14_Witness ==
    /\ asked.fn = "from_name"
    /\ asked.name = list[Len(list)]
    /\ asked.key # NoKey
    /\ answer.ok
    /\ answer.instance.make = "Hmac::<Sha512_256>::new(k)"

(***************************************************************************)
(* Claims about the AES ciphers of src/cipher/aes/x86.rs (SpecAes).  They  *)
(* are stated of the hardware engine, the code the claims name.            *)
(***************************************************************************)
\* the calls run on the types of x86.rs
Hardware == DETECTED = <<TRUE>>

\* the key size K of an enum's hardware type, and the first K bytes of a
\* forward schedule
KeySize(type) == Accelerated[Enums[type].Hw].key_size

KeyBytes(w, K) == SubSeq(w[1] \o w[2], 1, K)

\* C15: new(key) and rekey(key) on a cipher of key size K succeed exactly
\* when the key is K bytes long and return InvalidKeyLength otherwise; an
\* accepted key is the one installed, byte for byte (the schedule begins with
\* it), so no key is cut or padded to fit.
C15_KeyLength ==
    (Hardware /\ aescall.fn \in {"new", "rekey"}) =>
        /\ aescall.result.ok <=> Len(aescall.key) = KeySize(aescall.type)
        /\ ~aescall.result.ok => aescall.result.error = "InvalidKeyLength"
        /\ aescall.result.ok =>
               /\ cipher.type = aescall.type
               /\ KeyBytes(cipher.inner.w, KeySize(aescall.type)) = aescall.key

\* a 16-byte cipher has refused a 17-byte key at rekey
C15_Witness ==
    /\ Hardware
    /\ aescall.fn = "rekey"
    /\ aescall.type = "Aes128"
    /\ Len(aescall.key) = 17
    /\ ~aescall.result.ok
    /\ aescall.result.error = "InvalidKeyLength"

\* the step is a call of rekey that returns an error
RekeyFails == AesIdle /\ aescall'.fn = "rekey" /\ ~aescall'.result.ok

\* C16: a rekey that returns an error leaves the cipher as it was: the same
\* variant, the same forward and inverse schedules, which are still those
\* of the key the cipher held before the call (so encrypt_blocks and
\* decrypt_blocks, which read nothing else, behave as before).
C16_FailedRekeyKeepsCipher ==
    [][(Hardware /\ RekeyFails) =>
           /\ cipher' = cipher
           /\ keyed' = keyed
           /\ cipher'.inner.w =
                  expand_key(Accelerated[Enums[cipher.type].Hw].expand_key,
                             keyed)]_vars

\* an AES-192 cipher has refused a 16-byte key and still holds its schedules
C16_Witness ==
    /\ Hardware
    /\ aescall.fn = "rekey"
    /\ ~aescall.result.ok
    /\ cipher.type = "Aes192"
    /\ Len(aescall.key) = 16
    /\ Len(keyed) = 24
    /\ Len(cipher.inner.w) = 13
    /\ Len(cipher.inner.dw) = 13

\* the cipher is an instance of a type def_aes! defines (it has w and dw)
Decrypting ==
    /\ cipher # NoCipher
    /\ cipher.variant = "Hw"
    /\ Accelerated[Enums[cipher.type].Hw].macro = "def_aes"

\* C17: in every reachable state of an encrypt+decrypt cipher the inverse
\* schedule is invert_key of the current forward schedule, and the forward
\* schedule is the expansion of the key last accepted: the pair never comes
\* from two keys.
C17_SchedulePair ==
    Decrypting =>
        /\ cipher.inner.dw = invert_key(cipher.inner.w)
        /\ cipher.inner.w =
               expand_key(Accelerated[Enums[cipher.type].Hw].expand_key, keyed)

\* an AES-256 cipher holding one key has been rekeyed with another
C17_Witness ==
    /\ Decrypting
    /\ cipher.type = "Aes256"
    /\ aescall.fn = "rekey"
    /\ aescall.result.ok
    /\ aescall.held = AesKey(0, 32)
    /\ keyed = AesKey(1, 32)
    /\ cipher.inner.dw[1] = cipher.inner.w[15]
    /\ cipher.inner.dw[2] # cipher.inner.w[14]

\* C18: after a successful rekey(k2) the cipher is the cipher new(k2)
\* constructs, whatever key it held: both schedules are those of k2 alone,
\* so encrypt_blocks and decrypt_blocks, which read only the schedules,
\* produce the outputs of a fresh new(k2) for every input.
C18_RekeyAsNew ==
    (Hardware /\ aescall.fn = "rekey" /\ aescall.result.ok) =>
        cipher = impl_new_from_key_for_enum(aescall.type, aescall.key,
                                            TRUE).value

\* an AES-128 cipher holding one key has accepted another at rekey
C18_Witness ==
    /\ Hardware
    /\ aescall.fn = "rekey"
    /\ aescall.result.ok
    /\ aescall.type = "Aes128"
    /\ aescall.held = AesKey(0, 16)
    /\ aescall.key = AesKey(1, 16)
    /\ cipher.inner.w[1] = AesKey(1, 16)

\* encrypt1 or decrypt1 on source block i of the latest call, under the
\* schedule the call used
SingleBlock(i) ==
    crypt(IF aescall.fn = "encrypt_blocks" THEN "aesenc" ELSE "aesdec", 1,
          Accelerated[Enums[cipher.type].Hw].rounds,
          IF aescall.fn = "encrypt_blocks" THEN cipher.inner.w
          ELSE cipher.inner.dw,
          <<Block(i)>>, as_ptr(<<Block(0)>>)).mem[1]

\* C19: for 0 to MaxBlocks blocks, the hardware encrypt_blocks and
\* decrypt_blocks return without a panic having stored exactly the blocks at
\* offsets 0, 1, .., n - 1 of the destination, once each and in that order,
\* and block i of the destination is the single-block transform of source
\* block i, each batch starting from the first round key.
C19_Batching ==
    (Hardware /\ aescall.fn \in {"encrypt_blocks", "decrypt_blocks"}
        /\ aescall.src = aescall.dst) =>
        /\ ~aescall.panic
        /\ Len(aescall.mem) = aescall.src
        /\ aescall.stores = [j \in 1 .. aescall.src |-> j - 1]
        /\ \A i \in 1 .. aescall.src : aescall.mem[i] = SingleBlock(i)

\* 17 blocks have been decrypted: two batches of 8 and a remainder of 1
C19_Witness ==
    /\ Hardware
    /\ aescall.fn = "decrypt_blocks"
    /\ cipher.type = "Aes192"
    /\ aescall.src = 17
    /\ aescall.dst = 17
    /\ ~aescall.panic
    /\ Len(aescall.stores) = 17
    /\ \A i \in 1 .. 17 : aescall.mem[i] # Stale(17)[i]

\* C20: when the source and destination slices of encrypt_blocks or
\* decrypt_blocks have different block counts the call panics, and it has
\* stored nothing: the destination holds what it held before the call.
C20_MismatchPanics ==
    (Hardware /\ aescall.fn \in {"encrypt_blocks", "decrypt_blocks"}
        /\ aescall.src # aescall.dst) =>
        /\ aescall.panic
        /\ aescall.stores = <<>>
        /\ aescall.mem = Stale(aescall.dst)

\* encrypt_blocks has panicked on 9 source blocks and room for 8
C20_Witness ==
    /\ Hardware
    /\ aescall.fn = "encrypt_blocks"
    /\ aescall.src = 9
    /\ aescall.dst = 8
    /\ aescall.panic
    /\ aescall.mem = Stale(8)

(***************************************************************************)
(* Properties of the capability flag (SpecDetect)                          *)
(***************************************************************************)
\* C21: whatever the interleaving of the threads' calls of is_aes_detected,
\* and whatever each run of the closure answers, all the values returned so
\* far are one and the same boolean, the one DETECTED holds; and a thread
\* about to return is returning that boolean.
C21_FlagAgreement ==
    /\ returned # {} => DETECTED # <<>> /\ returned = {DETECTED[1]}
    /\ \A t \in Threads :
           thread[t].pc = "return" => DETECTED = <<thread[t].value>>

\* two threads ran the closure in the same first access, got different
\* answers, and both calls have returned
C21_Witness ==
    \E t, u \in Threads :
        /\ thread[t].pc = "return" /\ thread[u].pc = "return"
        /\ thread[t].ran /\ thread[u].ran
        /\ thread[t].token # thread[u].token
        /\ returned # {}

(***************************************************************************)
(* Properties of the AES enums (SpecAes)                                   *)
(***************************************************************************)
\* the variant the capability flag selects
Selected == IF DETECTED = <<TRUE>> THEN "Hw" ELSE "Sw"

\* the outcome of a call on blocks as the inner value of the given variant
\* computes it
Inner(variant, fn, self, from, to) ==
    CASE variant = "Hw" /\ fn = "encrypt_blocks" ->
             encrypt_blocks(self.inner, Accelerated[Enums[self.type].Hw].rounds,
                            from, to)
      [] variant = "Hw" /\ fn = "decrypt_blocks" ->
             decrypt_blocks(self.inner, Accelerated[Enums[self.type].Hw].rounds,
                            from, to)
      [] variant = "Sw" /\ fn = "encrypt_blocks" ->
             soft_encrypt_blocks(self.inner, from, to)
      [] variant = "Sw" /\ fn = "decrypt_blocks" ->
             soft_decrypt_blocks(self.inner, from, to)

\* the latest call was on blocks and left what done holds
Left(done) ==
    /\ aescall.panic = done.panic
    /\ aescall.mem = done.mem
    /\ aescall.stores = done.stores

\* C22: a cipher is the hardware variant exactly when the capability flag is
\* true and the software variant otherwise; new fails, constructing nothing,
\* exactly when the inner new of the selected variant fails; rekey,
\* encrypt_blocks and decrypt_blocks leave the variant and the type of the
\* instance as they were, and blocks are transformed by the inner value of
\* that variant.
C22_Dispatch ==
    /\ [](/\ cipher # NoCipher => cipher.variant = Selected
          /\ aescall.fn = "new" =>
                 /\ aescall.made <=> Len(aescall.key) = KeySize(aescall.type)
                 /\ aescall.made => cipher.type = aescall.type
                 /\ ~aescall.made =>
                        /\ ~aescall.result.ok
                        /\ aescall.result.error = "InvalidKeyLength"
          /\ aescall.fn \in {"encrypt_blocks", "decrypt_blocks"} =>
                 Left(Inner(Selected, aescall.fn, cipher,
                            Source(aescall.src), Stale(aescall.dst))))
    /\ [][aescall'.fn \in {"rekey", "encrypt_blocks", "decrypt_blocks"} =>
              /\ cipher'.variant = cipher.variant
              /\ cipher'.type = cipher.type]_vars

\* without the instructions a software cipher was built, and it is still the
\* software variant after a rekey with another key
C22_Witness ==
    /\ DETECTED = <<FALSE>>
    /\ cipher # NoCipher
    /\ cipher.variant = "Sw"
    /\ aescall.fn = "rekey"
    /\ aescall.result.ok
    /\ aescall.held # aescall.key

\* the cipher the other engine builds from the key the cipher holds
Counterpart ==
    impl_new_from_key_for_enum(cipher.type, keyed, Selected = "Sw").value

\* C23: whenever an AES cipher of either variant has transformed 0 to
\* MaxBlocks blocks by encrypt_blocks or decrypt_blocks, the cipher of the
\* other variant for the same key, given the same blocks, leaves the same
\* bytes: the hardware and the software engine agree for every key size and
\* every count of blocks, whatever the batches.
C23_EnginesAgree ==
    (aescall.fn \in {"encrypt_blocks", "decrypt_blocks"}
        /\ aescall.src = aescall.dst) =>
        /\ ~aescall.panic
        /\ Len(aescall.mem) = aescall.src
        /\ Counterpart.variant # cipher.variant
        /\ aescall.mem =
               Inner(Counterpart.variant, aescall.fn, Counterpart,
                     Source(aescall.src), Stale(aescall.dst)).mem

\* the hardware AES-256 has encrypted 17 blocks: two batches of 8 and one of 1
C23_Witness ==
    /\ Hardware
    /\ cipher # NoCipher
    /\ cipher.variant = "Hw"
    /\ cipher.type = "Aes256"
    /\ aescall.fn = "encrypt_blocks"
    /\ aescall.src = 17
    /\ aescall.dst = 17
    /\ ~aescall.panic
    /\ \A i \in 1 .. 17 : aescall.mem[i] # Block(i)

\* C24: for each of AES-128, AES-192 and AES-256 on the hardware engine and
\* each key, whenever encrypt_blocks has encrypted 0 to MaxBlocks blocks,
\* decrypt_blocks on the same instance, given the blocks it left, returns
\* the blocks that were encrypted, block for block: the inverse schedule
\* undoes the forward schedule.
C24_RoundTrip ==
    (Decrypting /\ Hardware /\ aescall.fn = "encrypt_blocks"
        /\ aescall.src = aescall.dst) =>
        /\ ~aescall.panic
        /\ Left(impl_encrypt_blocks_for_enum(cipher, Source(aescall.src),
                                             Stale(aescall.dst)))
        /\ impl_decrypt_blocks_for_enum(cipher, aescall.mem,
                                        Stale(aescall.dst)).mem
               = Source(aescall.src)

\* the hardware AES-192 has encrypted 9 blocks, a batch of 8 and one of 1, and
\* none of them is left as it was
C24_Witness ==
    /\ Decrypting
    /\ Hardware
    /\ cipher.type = "Aes192"
    /\ aescall.fn = "encrypt_blocks"
    /\ aescall.src = 9
    /\ aescall.dst = 9
    /\ ~aescall.panic
    /\ \A i \in 1 .. 9 : aescall.mem[i] # Block(i)

\* C25: the inverse schedule dw of a hardware cipher holds as many round
\* keys as the forward schedule w, rounds + 1 of them (11, 13 or 15 for keys
\* of 16, 24 or 32 bytes); its first is the last of w and its last the first
\* of w, both as they are, and every one between is InvMixColumns of the
\* round key of w at the mirrored place.
C25_InverseSchedule ==
    (Decrypting /\ Hardware) =>
        /\ Len(cipher.inner.w) = Accelerated[Enums[cipher.type].Hw].rounds + 1
        /\ Len(cipher.inner.w) =
               CASE Len(keyed) = 16 -> 11
                 [] Len(keyed) = 24 -> 13
                 [] Len(keyed) = 32 -> 15
        /\ Len(cipher.inner.dw) = Len(cipher.inner.w)
        /\ cipher.inner.dw[1] = cipher.inner.w[Len(cipher.inner.w)]
        /\ cipher.inner.dw[Len(cipher.inner.w)] = cipher.inner.w[1]
        /\ \A i \in 2 .. Len(cipher.inner.w) - 1 :
               cipher.inner.dw[i] =
                   InvMixColumns(cipher.inner.w[Len(cipher.inner.w) + 1 - i])

\* a hardware AES-256 cipher holds 15 round keys each way, and InvMixColumns
\* would have changed the two that are copied as they are
C25_Witness ==
    /\ Decrypting
    /\ Hardware
    /\ Len(keyed) = 32
    /\ Len(cipher.inner.dw) = 15
    /\ cipher.inner.dw[1] = cipher.inner.w[15]
    /\ cipher.inner.dw[15] = cipher.inner.w[1]
    /\ InvMixColumns(cipher.inner.w[15]) # cipher.inner.w[15]
    /\ InvMixColumns(cipher.inner.w[1]) # cipher.inner.w[1]

\* what extend_from_slice(other) is to leave of the buffer self
Extended(self, other, after) ==
    IF Len(other) > N - self.length
    THEN after.panic
    ELSE /\ ~after.panic
         /\ after.buffer = self.buffer \o other
         /\ after.length = self.length + Len(other)

\* the latest call was extend_from_slice, of a slice that is not empty
SliceCall == iter = "none" /\ call.values # <<>>

\* C27: extend_from_slice(other) on a buffer of at most N values panics
\* whenever other.len() exceeds the remaining capacity N - length, and
\* otherwise appends the values of other in order, the length growing by
\* other.len().
C27_ExtendFromSlice ==
    (SliceCall /\ CallInCapacity) => Extended(call, call.values, buf)

\* a slice that does not fit was passed to a buffer that had room for a part
\* of it
C27_Witness ==
    /\ SliceCall
    /\ call.length = N - 1
    /\ Len(call.values) = 2
    /\ buf.panic

\* what truncate(len) is to leave of the buffer self
Truncated(self, len, after) ==
    /\ after.length = Min(len, self.length)
    /\ after.length <= self.length
    /\ after.buffer = SubSeq(self.buffer, 1, after.length)

\* C28: truncate(len) truncates: whatever len and the buffer, the length
\* afterwards is min(len, previous length), never more than the previous
\* length, and the values kept are the ones that were there.
C28_Truncates ==
    (iter = "none" /\ "len" \in DOMAIN call) => Truncated(call, call.len, buf)

(***************************************************************************)
(* Properties of the compression function (SpecCore)                       *)
(***************************************************************************)
\* the value of a word modulo the prime 32749, limb by limb
RECURSIVE residue(_)
residue(x) ==
    IF x = <<>> THEN 0
    ELSE (residue(SubSeq(x, 1, Len(x) - 1)) * 65536 + x[Len(x)]) % 32749

RECURSIVE sum_residues(_)
sum_residues(terms) ==
    IF terms = <<>> THEN 0 ELSE residue(Head(terms)) + sum_residues(Tail(terms))

\* x is a word of n limbs, none wider than 16 bits
IsWord(x, n) == Len(x) = n /\ \A i \in 1 .. n : x[i] \in 0 .. 65535

\* x is the sum of the terms less a multiple of 2^(16 n) smaller than their
\* number: with IsWord(x, n), x is the sum modulo 2^(16 n)
IsSumModulo(x, terms, n) ==
    \E c \in 0 .. Len(terms) - 1 :
        residue(x) =
            (sum_residues(terms)
                + c * (32749 - residue(<<1>> \o [i \in 1 .. n |-> 0]))) % 32749

\* byte k of the word x, the most significant being byte 1
byte_of(x, k) ==
    IF k % 2 = 1 THEN x[(k + 1) \div 2] \div 256 ELSE x[k \div 2] % 256

\* SHA-256 and SHA-512 of the message "abc" (FIPS 180-4 examples)
Sha256Abc ==
    <<<<\hba78, \h16bf>>, <<\h8f01, \hcfea>>, <<\h4141, \h40de>>, <<\h5dae, \h2223>>,
      <<\hb003, \h61a3>>, <<\h9617, \h7a9c>>, <<\hb410, \hff61>>, <<\hf200, \h15ad>>>>

Sha512Abc ==
    <<<<\hddaf, \h35a1, \h9361, \h7aba>>, <<\hcc41, \h7349, \hae20, \h4131>>,
      <<\h12e6, \hfa4e, \h89a9, \h7ea2>>, <<\h0a9e, \heee6, \h4b55, \hd39a>>,
      <<\h2192, \h992a, \h274f, \hc1a8>>, <<\h36ba, \h3c23, \ha3fe, \hebbd>>,
      <<\h454d, \h4423, \h643c, \he80e>>, <<\h2a9a, \hc94f, \ha54c, \ha49f>>>>

\* what C26 says of an update of the core C that took the state h to h2 with
\* the schedule w and the working variables v
CompressionStep(C, block, h, w, v, h2) ==
    /\ Len(w) = C.ROUNDS
    /\ \A t \in 0 .. 15 :
           /\ IsWord(at(w, t), C.size \div 2)
           /\ \A k \in 1 .. C.size : byte_of(at(w, t), k) = block[C.size * t + k]
    /\ \A t \in 16 .. C.ROUNDS - 1 :
           /\ IsWord(at(w, t), C.size \div 2)
           /\ IsSumModulo(at(w, t),
                  <<sigma(at(w, t - 2), C.Functions.sigma1), at(w, t - 7),
                    sigma(at(w, t - 15), C.Functions.sigma0), at(w, t - 16)>>,
                  C.size \div 2)
    /\ h2 = Sha2Core_update(C, h, block)
    /\ \A i \in 1 .. 8 :
           /\ IsWord(h2[i], C.size \div 2)
           /\ IsSumModulo(h2[i], <<h[i], v[i]>>, C.size \div 2)
    /\ block = OneBlock(<<97, 98, 99>>, C.BLOCK_SIZE) =>
           /\ h = Sha256Initializer => h2 = Sha256Abc
           /\ h = Sha512Initializer => h2 = Sha512Abc

\* C26: Core::update reads the block as 16 big-endian words, extends them to
\* ROUNDS schedule words with w[t] = sigma1(w[t-2]) + w[t-7] + sigma0(w[t-15])
\* + w[t-16], runs ROUNDS rounds over the working variables and adds them into
\* the 8 state words; every sum is the sum modulo 2^(word width): no word is
\* ever wider, and the digest of a one-block message is the SHA-2 digest
C26_CompressionStep ==
    shacall.fn = "update" =>
        CompressionStep(Sha2Variants[sha.variant].core, shacall.block, shacall.h,
                        shacall.w, shacall.v, sha.h)

\* a second block was compressed into a state that is no initializer, and a
\* sum in it wrapped around
C26_Witness ==
    /\ shacall.fn = "update"
    /\ shacall.n = 2
    /\ sha.variant = "Sha512"
    /\ \E i \in 1 .. 8 : sha.h[i][1] < shacall.h[i][1] /\ sha.h[i][1] < shacall.v[i][1]

(***************************************************************************)
(* Properties of the MAC (SpecMac)                                         *)
(***************************************************************************)
\* Hmac::new(key), update(m), finalize
FreshTag(key, m) ==
    Hmac_finalize(Hmac_update(Hmac_new(key, FALSE), m, FALSE), FALSE)

\* C29: reset restores the keyed initial state and rekey resets too: whatever
\* updates and finalizes came before, right after a reset or a rekey the
\* instance is the one Hmac::new makes of the latest key, and a finalize after
\* updates that passed m returns the tag of Hmac::new(key), update(m),
\* finalize.
C29_ResetRestores ==
    /\ (macs.phase = "ready" /\ macs.message = <<>>) =>
           mac = Hmac_new(macs.key, FALSE)
    /\ macs.phase = "finalized" =>
           /\ ~macs.panic
           /\ macs.tag = FreshTag(macs.key, macs.message).tag

\* a used instance with a key longer than a block was reset, then updated and
\* finalized
C29_Witness ==
    /\ macs.phase = "finalized"
    /\ macs.by = "reset"
    /\ macs.used
    /\ macs.message # <<>>
    /\ Len(macs.key) > BLOCK_SIZE

====
